---------------------------- MODULE Spec2Model ----------------------------
(***************************************************************************)
(* Verification model of the treasury analyst backend: the spreadsheet     *)
(* processor (bulletproof_excel_processor.py), the KPI engine and the      *)
(* relevance pipeline (sentinel_engine.py), the intelligent analyzer       *)
(* (intelligent_financial_analyzer.py), the calls of the language-model    *)
(* service, the endpoints and stores of main.py and the sessions of        *)
(* auth_service.py.                                                        *)
(*                                                                         *)
(* Strings are TLA+ strings; substring tests and lower-casing are computed *)
(* character by character.  Amounts are integers; quotients are exact      *)
(* rationals <<numerator, denominator>> with a positive denominator.       *)
(***************************************************************************)
EXTENDS Integers, Sequences, FiniteSets, TLC

VARIABLES
    \* ---- process_excel_file (bulletproof_excel_processor.py)
    workbook,         \* the file at filepath: [readable, sheets], the sheets
                      \* in workbook order, each [name, cols, nrows]
    all_sheets,       \* pd.read_excel(filepath, sheet_name=None)
    sheet_mapping,    \* role -> sheet name, as built by _identify_sheets
    xl_pc,            \* position inside process_excel_file
    xl_tables,        \* role -> table produced so far
    xl_file_info      \* the file_info returned

VARIABLES
    \* ---- the KPI engine (sentinel_engine.py): the last KPI function call
    kpi_call          \* [fn, transactions_df, campaign_df, targets_df, result]

VARIABLES
    \* ---- the relevance pipeline (sentinel_engine.py):
    \*      analyze_data_with_gemini, then calculate_relevant_kpis
    rel_frames,       \* the three tables the pipeline is given
    classifier,       \* what the call of the external classifier came to
    analysis,         \* the dict analyze_data_with_gemini returned
    kpis,             \* the dict calculate_relevant_kpis returned
    rel_pc            \* position in the pipeline

VARIABLES
    \* ---- analyze_financial_data (intelligent_financial_analyzer.py)
    an_frames,        \* the three tables and the file_info it is given
    an_pc,            \* position inside analyze_financial_data
    current_metrics,  \* step 1
    patterns,         \* step 2
    ai_insights,      \* step 3
    an_result         \* the dict returned

VARIABLES
    \* ---- functions exercised one call at a time
    clean_call,       \* the last call of a cleaner or of a sheet normalizer
                      \* (bulletproof_excel_processor.py): [fn, df, result]
    growth_call       \* the last call of _calculate_growth_rate
                      \* (intelligent_financial_analyzer.py): [series, result]

VARIABLES
    \* ---- the calls of the language-model service (sentinel_engine.py,
    \*      intelligent_financial_analyzer.py)
    llm_call,         \* the call in progress or the last one returned:
                      \* [fn, query, persona, context, pc, requests, result]
    \* ---- get_dashboard_data (sentinel_engine.py)
    dashboard,        \* the dict it returned
    \* ---- load_data_from_excel (sentinel_engine.py)
    loaded            \* the tables and the file_info it returned

VARIABLES
    \* ---- the endpoints of main.py and their two stores
    uploaded_files,            \* dict file_id -> path, in insertion order
    processed_financial_data,  \* dict file_id -> result of the upload
    wall_clock,                \* int(time.time())
    served,                    \* requests received so far; request n makes
                               \* the temporary file n
    analyzing,                 \* the /analyze-excel/ request that awaits
                               \* file.read()
    last_response,             \* the last response sent
    uploads                    \* the /uploadfile/ requests stored, in order

VARIABLES
    \* ---- the sessions of auth_service.py
    sessions_collection,  \* db.sessions: the documents [token, email, expires_at]
    auth_now,             \* datetime.now(), in hours
    issued,               \* the tokens create_session returned, in order:
                          \* token n is issued[n] = [email, created_at]
    auth_log,             \* the tokens logout_user was called with, those it
                          \* removed, and those validate_session found expired
    auth_call             \* the last call: [fn, token, result]

xlVars == <<workbook, all_sheets, sheet_mapping, xl_pc, xl_tables, xl_file_info>>
kpiVars == <<kpi_call>>
relVars == <<rel_frames, classifier, analysis, kpis, rel_pc>>
anVars == <<an_frames, an_pc, current_metrics, patterns, ai_insights, an_result>>
callVars == <<clean_call, growth_call>>
srvVars == <<uploaded_files, processed_financial_data, wall_clock, served,
             analyzing, last_response, uploads>>
authVars == <<sessions_collection, auth_now, issued, auth_log, auth_call>>
svcVars == <<llm_call, dashboard, loaded, srvVars, authVars>>

vars == <<workbook, all_sheets, sheet_mapping, xl_pc, xl_tables, xl_file_info,
          kpi_call,
          rel_frames, classifier, analysis, kpis, rel_pc,
          an_frames, an_pc, current_metrics, patterns, ai_insights, an_result,
          clean_call, growth_call,
          llm_call, dashboard, loaded,
          uploaded_files, processed_financial_data, wall_clock, served,
          analyzing, last_response, uploads,
          sessions_collection, auth_now, issued, auth_log, auth_call>>

\* what the steps of process_excel_file leave alone
notExcel == <<kpiVars, relVars, anVars, callVars, svcVars>>
\* what a KPI function call leaves alone
notKpi == <<xlVars, relVars, anVars, callVars, svcVars>>
\* what the relevance pipeline leaves alone
notRelevance == <<xlVars, kpiVars, anVars, callVars, svcVars>>
\* what analyze_financial_data leaves alone
notAnalyzer == <<xlVars, kpiVars, relVars, callVars, svcVars>>

-----------------------------------------------------------------------------
(* Bounds of the model *)

MaxSheets == 3        \* sheets of a workbook whose sheets are processed
MaxNamedSheets == 4   \* sheets of a workbook whose sheets are only classified
MaxRows == 2          \* rows of a transactions frame given to a KPI function
MaxCleanRows == 2     \* rows of a frame given to a cleaner
MaxSeries == 4        \* values of a series given to _calculate_growth_rate

-----------------------------------------------------------------------------
(* Strings *)

UpperLetters == "ABCDEFGHIJKLMNOPQRSTUVWXYZ"
LowerLetters == "abcdefghijklmnopqrstuvwxyz"

RECURSIVE IndexIn(_, _, _)
IndexIn(c, s, i) ==
    IF i > Len(s) THEN 0
    ELSE IF SubSeq(s, i, i) = c THEN i ELSE IndexIn(c, s, i + 1)

\* the lower-case letter of every upper-case letter
ToLower ==
    [c \in {SubSeq(UpperLetters, k, k) : k \in 1..Len(UpperLetters)} |->
        LET k == IndexIn(c, UpperLetters, 1) IN SubSeq(LowerLetters, k, k)]

LowerChar(c) == IF c \in DOMAIN ToLower THEN ToLower[c] ELSE c

\* str.lower()
RECURSIVE lower(_)
lower(s) ==
    IF Len(s) = 0 THEN ""
    ELSE LowerChar(SubSeq(s, 1, 1)) \o lower(SubSeq(s, 2, Len(s)))

\* keyword in s  (Python substring test)
Contains(s, kw) ==
    \E i \in 1..(Len(s) - Len(kw) + 1) : SubSeq(s, i, i + Len(kw) - 1) = kw

\* any(keyword in s for keyword in keywords)
AnyKeywordIn(s, keywords) ==
    \E k \in 1..Len(keywords) : Contains(s, keywords[k])

\* x in list
InList(x, list) == \E k \in 1..Len(list) : list[k] = x

-----------------------------------------------------------------------------
(* BulletproofExcelProcessor: tables of the class *)

Roles == {"transactions", "campaigns", "targets"}

transaction_keywords == <<"transaction", "sales", "revenue", "expense", "ledger">>
campaign_keywords    == <<"campaign", "marketing", "ad", "spend">>
target_keywords      == <<"target", "goal", "budget", "forecast", "metric">>

\* self.column_mappings[...]: per role, the canonical fields in dictionary
\* order, each with its ordered list of accepted spellings
column_mappings ==
    [transactions |-> <<
        [std |-> "date",        possible |-> <<"Date", "date", "DATE", "transaction_date", "Transaction_Date">>],
        [std |-> "description", possible |-> <<"Description", "description", "DESCRIPTION", "desc", "Desc">>],
        [std |-> "category",    possible |-> <<"Category", "category", "CATEGORY", "type", "Type">>],
        [std |-> "amount",      possible |-> <<"Amount", "amount", "AMOUNT", "value", "Value", "price", "Price">>] >>,
     campaigns |-> <<
        [std |-> "timestamp",    possible |-> <<"Timestamp", "timestamp", "TIMESTAMP", "date", "Date">>],
        [std |-> "campaign_id",  possible |-> <<"Campaign_ID", "campaign_id", "CampaignID", "campaign", "Campaign">>],
        [std |-> "channel",      possible |-> <<"Channel", "channel", "CHANNEL", "source", "Source">>],
        [std |-> "spend",        possible |-> <<"Spend", "spend", "SPEND", "cost", "Cost", "budget", "Budget">>],
        [std |-> "acquisitions", possible |-> <<"Acquisitions", "acquisitions", "ACQUISITIONS", "conversions", "Conversions">>] >>,
     targets |-> <<
        [std |-> "metric_name", possible |-> <<"Metric_Name", "metric_name", "Metric", "metric", "KPI", "kpi">>],
        [std |-> "value",       possible |-> <<"Value", "value", "VALUE", "target", "Target", "goal", "Goal">>] >>]

\* the final "Standardize column names" rename of each _process_*_sheet
standard_names ==
    [transactions |-> [date |-> "Date", description |-> "Description",
                       category |-> "Category", amount |-> "Amount"],
     campaigns    |-> [timestamp |-> "Timestamp", campaign_id |-> "Campaign_ID",
                       channel |-> "Channel", spend |-> "Spend",
                       acquisitions |-> "Acquisitions"],
     targets      |-> [metric_name |-> "Metric_Name", value |-> "Value"]]

\* required_cols of each _process_*_sheet, in order
required_cols ==
    [transactions |-> <<"date", "description", "category", "amount">>,
     campaigns    |-> <<"timestamp", "campaign_id", "channel", "spend", "acquisitions">>,
     targets      |-> <<"metric_name", "value">>]

-----------------------------------------------------------------------------
(* _identify_sheets *)

NoMapping == [r \in {} |-> ""]

\* d[key] = value on a Python dict
DictSet(d, key, value) ==
    [k \in (DOMAIN d) \cup {key} |-> IF k = key THEN value ELSE d[k]]

\* the body of the loop over all_sheets.items(): the if / elif / elif chain
ClassifySheet(mapping, sheet_name) ==
    LET sheet_name_lower == lower(sheet_name)
    IN  IF AnyKeywordIn(sheet_name_lower, transaction_keywords)
            THEN DictSet(mapping, "transactions", sheet_name)
        ELSE IF AnyKeywordIn(sheet_name_lower, campaign_keywords)
            THEN DictSet(mapping, "campaigns", sheet_name)
        ELSE IF AnyKeywordIn(sheet_name_lower, target_keywords)
            THEN DictSet(mapping, "targets", sheet_name)
        ELSE mapping

\* the keyword loop over the first n sheets, in workbook order
RECURSIVE KeywordPass(_, _)
KeywordPass(sheet_names, n) ==
    IF n = 0 THEN NoMapping
    ELSE ClassifySheet(KeywordPass(sheet_names, n - 1), sheet_names[n])

\* "Fallback: use first 3 sheets if not identified"
PositionalFallback(mapping, sheet_names) ==
    LET m1 == IF Len(sheet_names) >= 1
                THEN DictSet(mapping, "transactions", sheet_names[1]) ELSE mapping
        m2 == IF Len(sheet_names) >= 2
                THEN DictSet(m1, "campaigns", sheet_names[2]) ELSE m1
        m3 == IF Len(sheet_names) >= 3
                THEN DictSet(m2, "targets", sheet_names[3]) ELSE m2
    IN  m3

identify_sheets(sheet_names) ==
    LET keyword_mapping == KeywordPass(sheet_names, Len(sheet_names))
    IN  IF Cardinality(DOMAIN keyword_mapping) < 3
            THEN PositionalFallback(keyword_mapping, sheet_names)
            ELSE keyword_mapping

-----------------------------------------------------------------------------
(* _process_transactions_sheet / _process_campaigns_sheet /               *)
(* _process_targets_sheet.  A table is a sequence of columns; a column is  *)
(* [name, data] where data names the sheet column its cells come from      *)
(* ("<sheet>!<column>"), or is "synthetic" for a generated column.         *)

Raised == [raised |-> TRUE]

SheetNamed(sheets, sheet_name) ==
    sheets[CHOOSE i \in 1..Len(sheets) : sheets[i].name = sheet_name]

\* df = all_sheets[sheet_name].copy()
SheetColumns(sheet) ==
    [i \in 1..Len(sheet.cols) |->
        [name |-> sheet.cols[i], data |-> sheet.name \o "!" \o sheet.cols[i]]]

ColumnNames(columns) == {columns[i].name : i \in 1..Len(columns)}

\* the inner loop "for col in df.columns: if col in possible_cols: ... break":
\* the first column, in sheet order, whose name is one of the spellings
\* ("" when the loop ends without a match)
FirstMatchingColumn(columns, possible_cols) ==
    LET hits == {i \in 1..Len(columns) : InList(columns[i].name, possible_cols)}
    IN  IF hits = {} THEN ""
        ELSE columns[CHOOSE i \in hits : \A j \in hits : i <= j].name

\* column_map after the outer loop over the first n canonical fields
RECURSIVE BuildColumnMap(_, _, _)
BuildColumnMap(columns, fields, n) ==
    IF n = 0 THEN NoMapping
    ELSE LET prev == BuildColumnMap(columns, fields, n - 1)
             col  == FirstMatchingColumn(columns, fields[n].possible)
         IN  IF col = "" THEN prev ELSE DictSet(prev, col, fields[n].std)

\* df.rename(columns=column_map)
RenameColumns(columns, column_map) ==
    [i \in 1..Len(columns) |->
        IF columns[i].name \in DOMAIN column_map
            THEN [columns[i] EXCEPT !.name = column_map[columns[i].name]]
            ELSE columns[i]]

\* "Ensure required columns exist": a missing required column is appended
\* with generated values
RECURSIVE EnsureRequired(_, _, _)
EnsureRequired(columns, required, n) ==
    IF n = 0 THEN columns
    ELSE LET prev == EnsureRequired(columns, required, n - 1)
         IN  IF required[n] \in ColumnNames(prev) THEN prev
             ELSE Append(prev, [name |-> required[n], data |-> "synthetic"])

\* the generated target columns are fixed lists of 4 values: assigning one to
\* a frame whose index has another non-zero length raises ValueError
TargetsFillRaises(columns, nrows) ==
    /\ \E n \in 1..Len(required_cols["targets"]) :
            required_cols["targets"][n] \notin ColumnNames(columns)
    /\ nrows \notin {0, 4}

\* the cleaners select df[<canonical name>] and convert it with
\* pd.to_datetime / pd.to_numeric / .str: each raises when the name selects
\* two columns (a DataFrame instead of a Series)
CleanRaises(columns, role) ==
    \E n \in 1..Len(required_cols[role]) :
        Cardinality({i \in 1..Len(columns) :
                        columns[i].name = required_cols[role][n]}) > 1

\* the frame as it is before the closing rename
NotStandardized(columns, role) == columns

\* the closing df.rename(columns={'date': 'Date', ...})
StandardizeColumns(columns, role) ==
    [i \in 1..Len(columns) |->
        IF columns[i].name \in DOMAIN standard_names[role]
            THEN [columns[i] EXCEPT !.name = standard_names[role][columns[i].name]]
            ELSE columns[i]]

\* _create_default_transactions / _campaigns / _targets
create_default_table(role) ==
    [origin  |-> "default",
     sheet   |-> "",
     columns |-> [n \in 1..Len(required_cols[role]) |->
                    [name |-> standard_names[role][required_cols[role][n]],
                     data |-> "synthetic"]]]

\* one _process_<role>_sheet call: a table, or Raised
process_sheet(sheets, mapping, role) ==
    IF role \notin DOMAIN mapping THEN create_default_table(role)
    ELSE LET sheet      == SheetNamed(sheets, mapping[role])
             df         == SheetColumns(sheet)
             column_map == BuildColumnMap(df, column_mappings[role],
                                          Len(column_mappings[role]))
             renamed    == RenameColumns(df, column_map)
             filled     == EnsureRequired(renamed, required_cols[role],
                                          Len(required_cols[role]))
         IN  IF role = "targets" /\ TargetsFillRaises(renamed, sheet.nrows)
                 THEN Raised
             ELSE IF CleanRaises(filled, role) THEN Raised
             ELSE [origin  |-> "sheet",
                   sheet   |-> sheet.name,
                   columns |-> StandardizeColumns(filled, role)]

-----------------------------------------------------------------------------
(* process_excel_file, step by step *)

NoFrame == [cols |-> {}, rows |-> <<>>]
NoCall == [fn |-> "", transactions_df |-> NoFrame, campaign_df |-> NoFrame,
           targets_df |-> NoFrame, result |-> [n |-> 0, d |-> 1]]

NoTable == [origin |-> "none", sheet |-> "", columns |-> <<>>]
NoTables == [r \in Roles |-> NoTable]
NoFileInfo == [processing_method |-> "", sheets_found |-> <<>>]

IsRaised(t) == "raised" \in DOMAIN t

\* the components that a specification does not exercise stay as constructed
NoInput == [transactions_df |-> NoFrame, campaign_df |-> NoFrame,
            targets_df |-> NoFrame]
Nothing == [nothing |-> TRUE]

IdleKpi == kpi_call = NoCall

NoSheetFrame == [columns |-> <<>>, rows |-> <<>>]
NoCleanCall == [fn |-> "", df |-> NoSheetFrame, result |-> NoSheetFrame]
NoGrowthCall == [series |-> <<>>, result |-> Nothing]
NoLlmCall == [pc |-> "idle"]
NoResponse == [endpoint |-> ""]
NotAnalyzing == [pending |-> FALSE]
IdleServer ==
    /\ uploaded_files = <<>>
    /\ processed_financial_data = <<>>
    /\ wall_clock = 1
    /\ served = 0
    /\ analyzing = NotAnalyzing
    /\ last_response = NoResponse
    /\ uploads = <<>>
NoAuthLog == [logout_called |-> {}, logged_out |-> {}, found_expired |-> {}]
IdleAuth ==
    /\ sessions_collection = {}
    /\ auth_now = 0
    /\ issued = <<>>
    /\ auth_log = NoAuthLog
    /\ auth_call = [fn |-> ""]
IdleService ==
    /\ llm_call = NoLlmCall /\ dashboard = Nothing /\ loaded = Nothing
    /\ IdleServer /\ IdleAuth
IdleCalls ==
    clean_call = NoCleanCall /\ growth_call = NoGrowthCall /\ IdleService

IdleRelevance ==
    /\ rel_frames = NoInput
    /\ classifier = Nothing
    /\ analysis = Nothing
    /\ kpis = Nothing
    /\ rel_pc = "idle"

IdleAnalyzer ==
    /\ an_frames = NoInput
    /\ an_pc = "idle"
    /\ current_metrics = Nothing
    /\ patterns = Nothing
    /\ ai_insights = Nothing
    /\ an_result = Nothing

SheetNamesOf(sheets) == [i \in 1..Len(sheets) |-> sheets[i].name]

\* _create_default_data, reached from the except clause of process_excel_file
DefaultData ==
    /\ xl_tables' = [r \in Roles |-> create_default_table(r)]
    /\ xl_file_info' = [processing_method |-> "fallback",
                        sheets_found |-> <<"Default">>]
    /\ xl_pc' = "done"

\* all_sheets = pd.read_excel(filepath, sheet_name=None)
ReadExcel ==
    /\ xl_pc = "start"
    /\ IF ~workbook.readable
          THEN DefaultData /\ UNCHANGED <<all_sheets, sheet_mapping>>
          ELSE /\ all_sheets' = workbook.sheets
               /\ xl_pc' = "read"
               /\ UNCHANGED <<sheet_mapping, xl_tables, xl_file_info>>
    /\ UNCHANGED workbook
    /\ UNCHANGED notExcel

\* sheet_mapping = self._identify_sheets(all_sheets)
IdentifySheets ==
    /\ xl_pc = "read"
    /\ sheet_mapping' = identify_sheets(SheetNamesOf(all_sheets))
    /\ xl_pc' = "identified"
    /\ UNCHANGED <<workbook, all_sheets, xl_tables, xl_file_info>>
    /\ UNCHANGED notExcel

\* one "<role>_df = self._process_<role>_sheet(all_sheets, sheet_mapping)"
\* statement of the try block
ProcessStep(role, next_pc) ==
    LET df == process_sheet(all_sheets, sheet_mapping, role)
    IN  IF IsRaised(df)
           THEN DefaultData
           ELSE /\ xl_tables' = [xl_tables EXCEPT ![role] = df]
                /\ xl_pc' = next_pc
                /\ xl_file_info' =
                      IF next_pc = "done"
                         THEN [processing_method |-> "bulletproof_processor",
                               sheets_found |-> SheetNamesOf(all_sheets)]
                         ELSE xl_file_info

ProcessTransactionsSheet ==
    /\ xl_pc = "identified"
    /\ ProcessStep("transactions", "transactions_done")
    /\ UNCHANGED <<workbook, all_sheets, sheet_mapping>>
    /\ UNCHANGED notExcel

ProcessCampaignsSheet ==
    /\ xl_pc = "transactions_done"
    /\ ProcessStep("campaigns", "campaigns_done")
    /\ UNCHANGED <<workbook, all_sheets, sheet_mapping>>
    /\ UNCHANGED notExcel

\* the targets sheet, then file_info and the return
ProcessTargetsSheet ==
    /\ xl_pc = "campaigns_done"
    /\ ProcessStep("targets", "done")
    /\ UNCHANGED <<workbook, all_sheets, sheet_mapping>>
    /\ UNCHANGED notExcel

-----------------------------------------------------------------------------
(* Workbooks the processor is run on *)

SheetNames == {"Sales", "Revenue", "Campaigns", "Targets", "Notes"}

\* the column headers and the row count of a sheet
SheetBodies ==
    { [cols |-> <<"Price", "Value", "Date">>, nrows |-> 3],
      [cols |-> <<"Goal", "Target", "Metric_Name">>, nrows |-> 3],
      [cols |-> <<"Timestamp", "Campaign_ID", "Channel", "Spend", "Acquisitions">>,
       nrows |-> 4],
      [cols |-> <<"Date", "date", "Amount">>, nrows |-> 3],
      [cols |-> <<"date", "Date", "Amount">>, nrows |-> 3] }

Sheets ==
    {[name |-> n, cols |-> b.cols, nrows |-> b.nrows] :
        n \in SheetNames, b \in SheetBodies}

\* sheet names are unique within a workbook
SheetLists ==
    UNION { { w \in [1..n -> Sheets] :
                \A i, j \in 1..n : i # j => w[i].name # w[j].name }
            : n \in 1..MaxSheets }

\* a file pd.read_excel cannot read (missing, corrupt, not a workbook)
UnreadableFile == [readable |-> FALSE, sheets |-> <<>>]

Workbooks ==
    {[readable |-> TRUE, sheets |-> w] : w \in SheetLists} \cup {UnreadableFile}

InitExcel ==
    /\ workbook \in Workbooks
    /\ all_sheets = <<>>
    /\ sheet_mapping = NoMapping
    /\ xl_pc = "start"
    /\ xl_tables = NoTables
    /\ xl_file_info = NoFileInfo
    /\ IdleKpi /\ IdleRelevance /\ IdleAnalyzer /\ IdleCalls

NextExcel ==
    \/ ReadExcel
    \/ IdentifySheets
    \/ ProcessTransactionsSheet
    \/ ProcessCampaignsSheet
    \/ ProcessTargetsSheet

SpecExcel == InitExcel /\ [][NextExcel]_vars

(* Workbooks for the sheet classifier alone: more sheets, one sheet body *)

ClassifierSheetNames == SheetNames \cup {"Leads"}

PlainBody ==
    [cols |-> <<"Date", "Description", "Category", "Amount">>, nrows |-> 4]

NamedSheetLists ==
    UNION { { w \in [1..n -> {[name |-> nm, cols |-> PlainBody.cols,
                               nrows |-> PlainBody.nrows] :
                                    nm \in ClassifierSheetNames}] :
                \A i, j \in 1..n : i # j => w[i].name # w[j].name }
            : n \in 1..MaxNamedSheets }

InitSheets ==
    /\ workbook \in {[readable |-> TRUE, sheets |-> w] : w \in NamedSheetLists}
                        \cup {UnreadableFile}
    /\ all_sheets = <<>>
    /\ sheet_mapping = NoMapping
    /\ xl_pc = "start"
    /\ xl_tables = NoTables
    /\ xl_file_info = NoFileInfo
    /\ IdleKpi /\ IdleRelevance /\ IdleAnalyzer /\ IdleCalls

SpecSheets == InitSheets /\ [][NextExcel]_vars

-----------------------------------------------------------------------------
(* Claims about the sheet classifier and the schema normalizer *)

Identified == xl_pc \notin {"start", "read"} /\ workbook.readable

\* role whose keyword set the name matches, as sets (a name may match several)
MatchesRole(sheet_name, role) ==
    AnyKeywordIn(lower(sheet_name),
                 CASE role = "transactions" -> transaction_keywords
                   [] role = "campaigns"    -> campaign_keywords
                   [] role = "targets"      -> target_keywords)

FirstIndex(S) == CHOOSE i \in S : \A j \in S : i <= j

\* C5: the mapping returned by _identify_sheets never assigns one sheet to two
\* different roles (each role has at most one sheet, no sheet has two roles),
\* the positional fallback included.
C5_NoSheetInTwoRoles ==
    Identified =>
        \A r1, r2 \in DOMAIN sheet_mapping :
            r1 # r2 => sheet_mapping[r1] # sheet_mapping[r2]

\* C6: when several sheets match the keywords of one role, the first of them in
\* workbook order is the sheet assigned to that role.
C6_FirstMatchingSheetWins ==
    Identified =>
        \A r \in Roles :
            LET names   == SheetNamesOf(all_sheets)
                matches == {i \in 1..Len(names) : MatchesRole(names[i], r)}
            IN  Cardinality(matches) >= 2 =>
                    /\ r \in DOMAIN sheet_mapping
                    /\ sheet_mapping[r] = names[FirstIndex(matches)]

\* the sheets left over by the keyword pass, in workbook order
RECURSIVE Remaining(_, _, _)
Remaining(names, taken, n) ==
    IF n = 0 THEN <<>>
    ELSE IF names[n] \in taken THEN Remaining(names, taken, n - 1)
    ELSE Append(Remaining(names, taken, n - 1), names[n])

\* C7: when the keyword pass assigned fewer than three roles, every
\* keyword-assigned role keeps its sheet, and only the unfilled roles are
\* filled, positionally from the sheets the keyword pass left unassigned
\* (1st remaining -> transactions, 2nd -> campaigns, 3rd -> targets).
C7_FallbackFillsOnlyUnfilledRoles ==
    Identified =>
        LET names   == SheetNamesOf(all_sheets)
            keyword == KeywordPass(names, Len(names))
            taken   == {keyword[r] : r \in DOMAIN keyword}
            rest    == Remaining(names, taken, Len(names))
            slot    == [transactions |-> 1, campaigns |-> 2, targets |-> 3]
        IN  Cardinality(DOMAIN keyword) < 3 =>
                /\ \A r \in DOMAIN keyword :
                        /\ r \in DOMAIN sheet_mapping
                        /\ sheet_mapping[r] = keyword[r]
                /\ \A r \in (DOMAIN sheet_mapping) \ (DOMAIN keyword) :
                        /\ slot[r] <= Len(rest)
                        /\ sheet_mapping[r] = rest[slot[r]]

\* C9: an error raised while normalizing the sheet of one role replaces only
\* that role's table by the synthetic default table; the tables of the other
\* roles are the ones derived from their own sheets.
C9_ErrorReplacesOnlyThatRole ==
    (xl_pc = "done" /\ workbook.readable) =>
        \A r \in Roles :
            LET df == process_sheet(all_sheets, sheet_mapping, r)
            IN  xl_tables[r] = IF IsRaised(df) THEN create_default_table(r) ELSE df

\* the earliest spelling of the list that is a column of the sheet ("" if none)
EarliestSpellingPresent(possible_cols, cols) ==
    LET hits == {k \in 1..Len(possible_cols) : InList(possible_cols[k], cols)}
    IN  IF hits = {} THEN "" ELSE possible_cols[FirstIndex(hits)]

\* C10: the source column mapped to a canonical field is the first spelling of
\* the field's list that is present among the sheet's columns, whatever the
\* order of the columns in the sheet.
C10_EarliestSpellingWins ==
    \A r \in Roles :
        xl_tables[r].origin = "sheet" =>
            LET sheet == SheetNamed(all_sheets, xl_tables[r].sheet)
                out   == xl_tables[r].columns
            IN  \A n \in 1..Len(column_mappings[r]) :
                    LET field == column_mappings[r][n]
                        first == EarliestSpellingPresent(field.possible, sheet.cols)
                    IN  first # "" =>
                            \E i \in 1..Len(out) :
                                /\ out[i].name = standard_names[r][field.std]
                                /\ out[i].data = sheet.name \o "!" \o first

-----------------------------------------------------------------------------
(* Numbers.  A float is modelled by the exact rational it stands for,       *)
(* [n, d] with d > 0 in lowest terms; d = 0 stands for a non-finite float   *)
(* (n = 0: NaN, n # 0: infinity), as numpy division by zero produces.       *)

Abs(x) == IF x < 0 THEN -x ELSE x

RECURSIVE GCD(_, _)
GCD(a, b) == IF b = 0 THEN a ELSE GCD(b, a % b)

Rat(n, d) ==
    IF d = 0 THEN [n |-> IF n > 0 THEN 1 ELSE IF n < 0 THEN -1 ELSE 0, d |-> 0]
    ELSE LET g == GCD(Abs(n), Abs(d))
             sgn == IF d < 0 THEN -1 ELSE 1
         IN  [n |-> sgn * (n \div g), d |-> sgn * (d \div g)]

Num(i) == [n |-> i, d |-> 1]
Zero == Num(0)

IsFinite(x) == x.d # 0
RAdd(x, y) == Rat(x.n * y.d + y.n * x.d, x.d * y.d)
RSub(x, y) == Rat(x.n * y.d - y.n * x.d, x.d * y.d)
RMul(x, y) == Rat(x.n * y.n, x.d * y.d)
\* x / y on numpy floats: division by zero gives inf or nan, not an exception
RDiv(x, y) == Rat(x.n * y.d, x.d * y.n)
RAbs(x) == [n |-> Abs(x.n), d |-> x.d]
RLt(x, y) == x.n * y.d < y.n * x.d
RLe(x, y) == x.n * y.d <= y.n * x.d
REq(x, y) == x.n * y.d = y.n * x.d
\* Python min(a, b) / max(a, b): b replaces a only when strictly smaller / larger
RMin(x, y) == IF RLt(y, x) THEN y ELSE x
RMax(x, y) == IF RLt(x, y) THEN y ELSE x

\* round(x, 2): to the nearest hundredth, ties to the even hundredth
Round2(x) ==
    LET num  == x.n * 100
        q    == num \div x.d
        twor == 2 * (num % x.d)
        up   == twor > x.d \/ (twor = x.d /\ q % 2 = 1)
    IN  IF ~IsFinite(x) THEN x ELSE Rat(IF up THEN q + 1 ELSE q, 100)

\* safe_float: NaN and +-inf become 0.0
safe_float(value) == IF ~IsFinite(value) THEN Zero ELSE value

-----------------------------------------------------------------------------
(* Data frames of the KPI engine.  A frame is [cols, rows]: the set of its  *)
(* column names and the sequence of its rows (records of cell values).      *)

\* the value of the first row only
FirstField(rows, field) == IF rows = <<>> THEN 0 ELSE rows[1][field]

\* df[field].sum()
RECURSIVE SumField(_, _)
SumField(rows, field) ==
    IF rows = <<>> THEN 0 ELSE rows[1][field] + SumField(Tail(rows), field)

\* the pattern '|'.join(keywords) as it is matched with case=False
IgnoreCase(keywords) == [k \in 1..Len(keywords) |-> lower(keywords[k])]

\* series.str.contains(pattern, case=False, na=False), for one cell
StrContainsAny(text, pattern) ==
    LET lowered == lower(text)
    IN  \E k \in 1..Len(pattern) : Contains(lowered, pattern[k])

\* df[df['Metric_Name'] == metric]
TargetRows(targets_df, metric) ==
    SelectSeq(targets_df.rows, LAMBDA row : row.Metric_Name = metric)

\* first column whose lower-cased name is the given one ("" if none)
ColumnIgnoringCase(df, lowered) ==
    IF \E c \in df.cols : lower(c) = lowered
        THEN CHOOSE c \in df.cols : lower(c) = lowered
        ELSE ""

\* the keyword lists, as the patterns they are joined into
cv_revenue_categories ==
    IgnoreCase(<<"Revenue", "Income", "Sales", "Payment", "Cash In", "Subscription", "MRR", "Total Revenue">>)
cv_expense_categories ==
    IgnoreCase(<<"Expense", "Cost", "Spend", "COGS", "Marketing", "R&D", "G&A", "Infrastructure">>)
days_expense_categories ==
    IgnoreCase(<<"Expense", "Cost", "Spend", "COGS", "Marketing", "R&D", "G&A", "Total Expenses">>)
payment_categories ==
    IgnoreCase(<<"Payment", "Transfer", "Deposit", "Withdrawal">>)
cost_categories ==
    IgnoreCase(<<"Fee", "Cost", "Charge", "Processing", "Transaction">>)
roi_revenue_categories ==
    IgnoreCase(<<"Revenue", "Income", "Sales", "Payment", "Subscription", "MRR", "Total Revenue">>)
budget_metrics ==
    <<"Quarterly_Marketing_Budget", "Marketing_Budget", "Budget", "Total_Budget">>

\* a function without its "except Exception" clause
Unhandled(result, fallback) == result

\* the value a function returns from its "except Exception" clause
OnException(result, fallback) == IF IsRaised(result) THEN fallback ELSE result

-----------------------------------------------------------------------------
(* calculate_cash_visibility *)

\* the function without its category branch
sign_only_cash_visibility(transactions_df) ==
    LET amount_col == ColumnIgnoringCase(transactions_df, "amount")
        rows == transactions_df.rows
    IN  IF amount_col = "" THEN Zero
        ELSE Num(SumField(SelectSeq(rows, LAMBDA r : r[amount_col] > 0), amount_col)
                 - Abs(SumField(SelectSeq(rows, LAMBDA r : r[amount_col] < 0), amount_col)))

cash_visibility_try(transactions_df) ==
    LET amount_col   == ColumnIgnoringCase(transactions_df, "amount")
        category_col == ColumnIgnoringCase(transactions_df, "category")
        rows == transactions_df.rows
        cash_inflows  == SumField(SelectSeq(rows, LAMBDA r : r[amount_col] > 0), amount_col)
        cash_outflows == Abs(SumField(SelectSeq(rows, LAMBDA r : r[amount_col] < 0), amount_col))
        revenue_amounts ==
            SumField(SelectSeq(rows, LAMBDA r :
                        StrContainsAny(r[category_col], cv_revenue_categories)), amount_col)
        expense_amounts ==
            Abs(SumField(SelectSeq(rows, LAMBDA r :
                        StrContainsAny(r[category_col], cv_expense_categories)), amount_col))
    IN  IF amount_col = "" THEN Zero
        ELSE IF category_col # "" /\ revenue_amounts > 0
            THEN safe_float(Round2(Num(revenue_amounts - expense_amounts)))
        ELSE safe_float(Round2(Num(cash_inflows - cash_outflows)))

calculate_cash_visibility(transactions_df) ==
    OnException(cash_visibility_try(transactions_df), Zero)

-----------------------------------------------------------------------------
(* calculate_days_cash_on_hand *)

MaxOf(S) == CHOOSE x \in S : \A y \in S : y <= x
MinOf(S) == CHOOSE x \in S : \A y \in S : x <= y

\* the statements after "if current_cash <= 0: return 0.0"
days_cash_from(current_cash, transactions_df) ==
    LET rows == transactions_df.rows
        by_sign == Abs(SumField(SelectSeq(rows, LAMBDA r : r.Amount < 0), "Amount"))
        by_category ==
            Abs(SumField(SelectSeq(rows, LAMBDA r :
                    StrContainsAny(r.Category, days_expense_categories)), "Amount"))
        expenses == IF "Category" \in transactions_df.cols THEN by_category ELSE by_sign
        \* monthly_burn_rate = current_cash * 0.1; daily_burn_rate = monthly / 30
        assumed_daily_burn_rate == RDiv(RMul(current_cash, Rat(1, 10)), Num(30))
        dates == {rows[i].Date : i \in 1..Len(rows)}
        days_in_period ==
            IF "Date" \in transactions_df.cols
                THEN (IF MaxOf(dates) - MinOf(dates) + 1 > 1
                        THEN MaxOf(dates) - MinOf(dates) + 1 ELSE 1)
                ELSE (IF Len(rows) \div 2 > 30 THEN Len(rows) \div 2 ELSE 30)
        daily_burn_rate == Rat(expenses, days_in_period)
    IN  IF "Amount" \notin transactions_df.cols THEN Zero
        ELSE IF expenses = 0
            THEN IF RLt(Zero, assumed_daily_burn_rate)
                    THEN safe_float(RMin(RDiv(current_cash, assumed_daily_burn_rate), Num(365)))
                    ELSE Num(90)
        ELSE IF REq(daily_burn_rate, Zero) THEN Num(30)
        ELSE safe_float(RDiv(current_cash, daily_burn_rate))

days_cash_on_hand_try(transactions_df, targets_df) ==
    IF "Metric_Name" \notin targets_df.cols THEN Raised      \* KeyError
    ELSE LET current_cash_row == TargetRows(targets_df, "Current_Cash")
         IN  IF current_cash_row # <<>> /\ "Value" \notin targets_df.cols
                THEN Raised                                  \* KeyError
             ELSE LET current_cash ==
                        IF current_cash_row # <<>>
                            THEN Num(current_cash_row[1].Value)
                            ELSE calculate_cash_visibility(transactions_df)
                  IN  IF RLe(current_cash, Zero) THEN Zero
                      ELSE days_cash_from(current_cash, transactions_df)

calculate_days_cash_on_hand(transactions_df, targets_df) ==
    OnException(days_cash_on_hand_try(transactions_df, targets_df), Zero)

-----------------------------------------------------------------------------
(* calculate_forecast_accuracy *)

DemoForecastAccuracy == Rat(92, 100)

forecast_accuracy_try(targets_df) ==
    IF "Metric_Name" \notin targets_df.cols THEN Raised      \* KeyError
    ELSE LET forecast_row == TargetRows(targets_df, "Forecast_Accuracy_Target")
         IN  IF forecast_row = <<>> THEN DemoForecastAccuracy
             ELSE IF "Value" \notin targets_df.cols THEN Raised
             ELSE Num(forecast_row[1].Value)

calculate_forecast_accuracy(targets_df) ==
    OnException(forecast_accuracy_try(targets_df), DemoForecastAccuracy)

-----------------------------------------------------------------------------
(* calculate_budget_vs_actual_spend *)

\* the loop over budget_metrics from position k on: the value of the first
\* metric that has a row, 0.0 when none has; Raised on a KeyError
RECURSIVE BudgetFromTargets(_, _)
BudgetFromTargets(targets_df, k) ==
    IF k > Len(budget_metrics) THEN Zero
    ELSE IF "Metric_Name" \notin targets_df.cols THEN Raised
    ELSE LET budget_row == TargetRows(targets_df, budget_metrics[k])
         IN  IF budget_row = <<>> THEN BudgetFromTargets(targets_df, k + 1)
             ELSE IF "Value" \notin targets_df.cols THEN Raised
             ELSE Num(budget_row[1].Value)

budget_vs_actual_spend_try(campaign_df, targets_df) ==
    LET found == BudgetFromTargets(targets_df, 1)
        spend_sum == SumField(campaign_df.rows, "Spend")
        budget == IF REq(found, Zero) /\ "Spend" \in campaign_df.cols
                    THEN RMul(Num(spend_sum), Rat(12, 10))
                    ELSE found
    IN  IF IsRaised(found) THEN Raised
        ELSE IF REq(budget, Zero) THEN Zero
        ELSE IF "Spend" \notin campaign_df.cols THEN Zero
        ELSE safe_float(Round2(RMul(RDiv(Num(spend_sum), budget), Num(100))))

calculate_budget_vs_actual_spend(campaign_df, targets_df) ==
    OnException(budget_vs_actual_spend_try(campaign_df, targets_df), Zero)

-----------------------------------------------------------------------------
(* calculate_payment_stp_rate *)

payment_stp_rate_try(transactions_df) ==
    LET rows == transactions_df.rows
        total_payments == Len(rows)
        successful_payments == Len(SelectSeq(rows, LAMBDA r : r.Amount # 0))
        stp_rate == RMul(Rat(successful_payments, total_payments), Num(100))
        payment_transactions ==
            SelectSeq(rows, LAMBDA r : StrContainsAny(r.Category, payment_categories))
        payment_success_rate ==
            Rat(Len(SelectSeq(payment_transactions, LAMBDA r : r.Amount # 0)),
                Len(payment_transactions))
        adjusted ==
            IF "Category" \in transactions_df.cols /\ Len(payment_transactions) > 0
                THEN RMin(RMul(stp_rate, payment_success_rate), Num(100))
                ELSE stp_rate
    IN  IF "Amount" \notin transactions_df.cols THEN Zero
        ELSE IF total_payments = 0 THEN Zero
        ELSE safe_float(RMin(adjusted, Num(100)))

calculate_payment_stp_rate(transactions_df) ==
    OnException(payment_stp_rate_try(transactions_df), Zero)

-----------------------------------------------------------------------------
(* calculate_cost_per_transaction *)

cost_per_transaction_try(transactions_df) ==
    LET rows == transactions_df.rows
        total_transactions == Len(rows)
        cost_transactions ==
            SelectSeq(rows, LAMBDA r : StrContainsAny(r.Category, cost_categories))
        \* total_volume = abs(transactions_df['Amount'].sum())
        total_volume == Abs(SumField(rows, "Amount"))
        total_costs ==
            IF "Category" \in transactions_df.cols /\ Len(cost_transactions) > 0
                THEN Num(Abs(SumField(cost_transactions, "Amount")))
                ELSE RMul(Num(total_volume), Rat(5, 1000))
        cost_per_transaction == RDiv(total_costs, Num(total_transactions))
        \* abs(transactions_df['Amount'].mean())
        avg_transaction_amount == RAbs(Rat(SumField(rows, "Amount"), total_transactions))
        tiered ==
            IF RLt(Num(1000), avg_transaction_amount)
                THEN RMul(cost_per_transaction, Rat(7, 10))
            ELSE IF RLt(avg_transaction_amount, Num(100))
                THEN RMul(cost_per_transaction, Rat(13, 10))
            ELSE cost_per_transaction
    IN  IF "Amount" \notin transactions_df.cols THEN Zero
        ELSE IF total_transactions = 0 THEN Zero
        ELSE safe_float(RMax(tiered, Rat(1, 100)))

calculate_cost_per_transaction(transactions_df) ==
    OnException(cost_per_transaction_try(transactions_df), Zero)

-----------------------------------------------------------------------------
(* calculate_marketing_spend_roi *)

marketing_spend_roi_try(transactions_df, campaign_df) ==
    LET rows == transactions_df.rows
        revenue_amounts ==
            SumField(SelectSeq(rows, LAMBDA r :
                        StrContainsAny(r.Category, roi_revenue_categories)), "Amount")
        total_revenue ==
            IF "Category" \in transactions_df.cols
                THEN (IF revenue_amounts > 0 THEN revenue_amounts ELSE 0)
                ELSE SumField(SelectSeq(rows, LAMBDA r : r.Amount > 0), "Amount")
        total_marketing_spend == SumField(campaign_df.rows, "Spend")
        roi == Rat(total_revenue - total_marketing_spend, total_marketing_spend)
    IN  IF "Amount" \notin transactions_df.cols THEN Zero
        ELSE IF "Spend" \notin campaign_df.cols THEN Zero
        ELSE IF total_marketing_spend = 0 THEN Zero
        ELSE safe_float(Round2(RMul(roi, Num(100))))

calculate_marketing_spend_roi(transactions_df, campaign_df) ==
    OnException(marketing_spend_roi_try(transactions_df, campaign_df), Zero)

-----------------------------------------------------------------------------
(* calculate_customer_acquisition_cost *)

customer_acquisition_cost_try(campaign_df) ==
    LET total_spend == SumField(campaign_df.rows, "Spend")
        total_acquisitions ==
            IF "Acquisitions" \in campaign_df.cols
                THEN Num(SumField(campaign_df.rows, "Acquisitions"))
            ELSE IF "Conversions" \in campaign_df.cols
                THEN Num(SumField(campaign_df.rows, "Conversions"))
            ELSE IF "New_Customers" \in campaign_df.cols
                THEN Num(SumField(campaign_df.rows, "New_Customers"))
            ELSE Rat(total_spend, 50)
    IN  IF "Spend" \notin campaign_df.cols THEN Zero
        ELSE IF REq(total_acquisitions, Zero) THEN Zero
        ELSE safe_float(Round2(RDiv(Num(total_spend), total_acquisitions)))

calculate_customer_acquisition_cost(campaign_df) ==
    OnException(customer_acquisition_cost_try(campaign_df), Zero)

-----------------------------------------------------------------------------
(* Frames the KPI functions are called with *)

Categories == {"Revenue", "Marketing", "Bank Fee", "Other"}
Amounts == {-40, 0, 100}
Dates == {1, 3}

\* rows of a transactions frame with the given columns (the cell of an absent
\* column is a placeholder that no function reads)
TxRows(cols) ==
    [Date     : IF "Date" \in cols THEN Dates ELSE {1},
     Category : IF "Category" \in cols THEN Categories ELSE {""},
     Amount   : IF "Amount" \in cols THEN Amounts ELSE {0}]

TxFrames ==
    UNION { { [cols |-> c, rows |-> w] : w \in [1..n -> TxRows(c)] }
            : c \in SUBSET {"Date", "Category", "Amount"}, n \in 0..MaxRows }

CampaignRow(spend, acquired) ==
    [Spend |-> spend, Acquisitions |-> acquired, Conversions |-> acquired,
     New_Customers |-> acquired]

CampaignFrames ==
    { [cols |-> c, rows |-> w] :
        c \in { {}, {"Spend"}, {"Acquisitions"}, {"Spend", "Acquisitions"},
                {"Spend", "Conversions"} },
        w \in { <<>>, <<CampaignRow(40, 2)>>, <<CampaignRow(0, 2)>>,
                <<CampaignRow(40, 0)>>, <<CampaignRow(40, 2), CampaignRow(60, 3)>> } }

TargetRow(metric, value) == [Metric_Name |-> metric, Value |-> value]

TargetFrames ==
    { [cols |-> {}, rows |-> <<>>],
      [cols |-> {"Metric_Name"}, rows |-> <<TargetRow("Current_Cash", 0)>>] }
    \cup
    { [cols |-> {"Metric_Name", "Value"}, rows |-> w] :
        w \in { <<>>,
                <<TargetRow("Current_Cash", 1000)>>,
                <<TargetRow("Current_Cash", 0)>>,
                <<TargetRow("Current_Cash", -5)>>,
                <<TargetRow("Quarterly_Marketing_Budget", 0)>>,
                <<TargetRow("Budget", 50), TargetRow("Marketing_Budget", 200)>>,
                <<TargetRow("Forecast_Accuracy_Target", 1)>> } }

-----------------------------------------------------------------------------
(* One action per KPI function: the function applied to frames *)

\* the record of one call
Call(fn, tx, camp, tgt, result) ==
    [fn |-> fn, transactions_df |-> tx, campaign_df |-> camp,
     targets_df |-> tgt, result |-> result]

\* each behaviour is one call, from the state in which nothing was called yet
CallCashVisibility ==
    /\ kpi_call = NoCall
    /\ \E tx \in TxFrames :
          kpi_call' = Call("cash_visibility", tx, NoFrame, NoFrame,
                           calculate_cash_visibility(tx))
    /\ UNCHANGED notKpi

CallDaysCashOnHand ==
    /\ kpi_call = NoCall
    /\ \E tx \in TxFrames, tgt \in TargetFrames :
          kpi_call' = Call("days_cash_on_hand", tx, NoFrame, tgt,
                           calculate_days_cash_on_hand(tx, tgt))
    /\ UNCHANGED notKpi

CallForecastAccuracy ==
    /\ kpi_call = NoCall
    /\ \E tgt \in TargetFrames :
          kpi_call' = Call("forecast_accuracy", NoFrame, NoFrame, tgt,
                           calculate_forecast_accuracy(tgt))
    /\ UNCHANGED notKpi

CallBudgetVsActualSpend ==
    /\ kpi_call = NoCall
    /\ \E camp \in CampaignFrames, tgt \in TargetFrames :
          kpi_call' = Call("budget_vs_actual_spend", NoFrame, camp, tgt,
                           calculate_budget_vs_actual_spend(camp, tgt))
    /\ UNCHANGED notKpi

CallPaymentStpRate ==
    /\ kpi_call = NoCall
    /\ \E tx \in TxFrames :
          kpi_call' = Call("payment_stp_rate", tx, NoFrame, NoFrame,
                           calculate_payment_stp_rate(tx))
    /\ UNCHANGED notKpi

CallCostPerTransaction ==
    /\ kpi_call = NoCall
    /\ \E tx \in TxFrames :
          kpi_call' = Call("cost_per_transaction", tx, NoFrame, NoFrame,
                           calculate_cost_per_transaction(tx))
    /\ UNCHANGED notKpi

CallMarketingSpendRoi ==
    /\ kpi_call = NoCall
    /\ \E tx \in TxFrames, camp \in CampaignFrames :
          kpi_call' = Call("marketing_spend_roi", tx, camp, NoFrame,
                           calculate_marketing_spend_roi(tx, camp))
    /\ UNCHANGED notKpi

CallCustomerAcquisitionCost ==
    /\ kpi_call = NoCall
    /\ \E camp \in CampaignFrames :
          kpi_call' = Call("customer_acquisition_cost", NoFrame, camp, NoFrame,
                           calculate_customer_acquisition_cost(camp))
    /\ UNCHANGED notKpi

\* the processor, when a specification does not exercise it
IdleExcel ==
    /\ workbook = UnreadableFile
    /\ all_sheets = <<>>
    /\ sheet_mapping = NoMapping
    /\ xl_pc = "idle"
    /\ xl_tables = NoTables
    /\ xl_file_info = NoFileInfo

InitKpi ==
    kpi_call = NoCall /\ IdleExcel /\ IdleRelevance /\ IdleAnalyzer /\ IdleCalls

NextKpi ==
    \/ CallCashVisibility
    \/ CallDaysCashOnHand
    \/ CallForecastAccuracy
    \/ CallBudgetVsActualSpend
    \/ CallPaymentStpRate
    \/ CallCostPerTransaction
    \/ CallMarketingSpendRoi
    \/ CallCustomerAcquisitionCost

SpecKpi == InitKpi /\ [][NextKpi]_vars

-----------------------------------------------------------------------------
(* Properties of the KPI functions *)

KpiCalled(fn) == kpi_call.fn = fn

\* the current cash of a call: the 'Current_Cash' target, or the cash
\* visibility when that target is absent
CurrentCashOf(transactions_df, targets_df) ==
    IF /\ {"Metric_Name", "Value"} \subseteq targets_df.cols
       /\ TargetRows(targets_df, "Current_Cash") # <<>>
        THEN Num(TargetRows(targets_df, "Current_Cash")[1].Value)
        ELSE calculate_cash_visibility(transactions_df)

\* C1: calculate_days_cash_on_hand returns a value in [0, 365] whenever the
\* current cash is > 0 and exactly 0 whenever the current cash is <= 0.
C1_DaysCashWithinYear ==
    KpiCalled("days_cash_on_hand") =>
        LET current_cash == CurrentCashOf(kpi_call.transactions_df, kpi_call.targets_df)
        IN  IF RLt(Zero, current_cash)
                THEN RLe(Zero, kpi_call.result) /\ RLe(kpi_call.result, Num(365))
                ELSE kpi_call.result = Zero

\* the expenses calculate_days_cash_on_hand derives its burn rate from
ExpensesOf(transactions_df) ==
    LET rows == transactions_df.rows
    IN  IF "Category" \in transactions_df.cols
            THEN Abs(SumField(SelectSeq(rows, LAMBDA r :
                        StrContainsAny(r.Category, days_expense_categories)), "Amount"))
            ELSE Abs(SumField(SelectSeq(rows, LAMBDA r : r.Amount < 0), "Amount"))

\* the acquisitions calculate_customer_acquisition_cost divides by
AcquisitionsOf(campaign_df) ==
    LET rows == campaign_df.rows
    IN  IF "Acquisitions" \in campaign_df.cols THEN Num(SumField(rows, "Acquisitions"))
        ELSE IF "Conversions" \in campaign_df.cols THEN Num(SumField(rows, "Conversions"))
        ELSE IF "New_Customers" \in campaign_df.cols
            THEN Num(SumField(rows, "New_Customers"))
        ELSE Rat(SumField(rows, "Spend"), 50)

\* the budget calculate_budget_vs_actual_spend divides by
BudgetOf(campaign_df, targets_df) ==
    LET found == BudgetFromTargets(targets_df, 1)
    IN  IF IsRaised(found) THEN found
        ELSE IF REq(found, Zero) /\ "Spend" \in campaign_df.cols
            THEN RMul(Num(SumField(campaign_df.rows, "Spend")), Rat(12, 10))
        ELSE found

\* the divisor of the called function's formula is zero: zero transactions,
\* zero budget, zero marketing spend, zero acquisitions
DivisorIsZero ==
    \/ /\ KpiCalled("payment_stp_rate") \/ KpiCalled("cost_per_transaction")
       /\ Len(kpi_call.transactions_df.rows) = 0
    \/ /\ KpiCalled("budget_vs_actual_spend")
       /\ LET budget == BudgetOf(kpi_call.campaign_df, kpi_call.targets_df)
          IN  ~IsRaised(budget) /\ REq(budget, Zero)
    \/ /\ KpiCalled("marketing_spend_roi")
       /\ "Spend" \in kpi_call.campaign_df.cols
       /\ SumField(kpi_call.campaign_df.rows, "Spend") = 0
    \/ /\ KpiCalled("customer_acquisition_cost")
       /\ "Spend" \in kpi_call.campaign_df.cols
       /\ REq(AcquisitionsOf(kpi_call.campaign_df), Zero)

\* the daily burn rate of the data is zero while there is cash to burn (the
\* targets table has its two columns, so that the current cash can be read)
ZeroDailyBurnRate ==
    /\ KpiCalled("days_cash_on_hand")
    /\ "Amount" \in kpi_call.transactions_df.cols
    /\ {"Metric_Name", "Value"} \subseteq kpi_call.targets_df.cols
    /\ RLt(Zero, CurrentCashOf(kpi_call.transactions_df, kpi_call.targets_df))
    /\ ExpensesOf(kpi_call.transactions_df) = 0

ReturnsValue == DOMAIN kpi_call.result = {"n", "d"}

-----------------------------------------------------------------------------
(* The relevance pipeline: analyze_data_with_gemini asks the external       *)
(* classifier which KPIs are relevant, calculate_relevant_kpis computes     *)
(* those and reports the others as None.                                    *)

MaxPipelineRows == 1  \* rows of a transactions frame given to the pipeline

KpiNames ==
    <<"cash_visibility", "days_cash_on_hand", "forecast_accuracy",
      "budget_vs_actual_spend", "payment_stp_rate", "cost_per_transaction",
      "marketing_spend_roi", "customer_acquisition_cost">>

KpiSet == {KpiNames[i] : i \in 1..Len(KpiNames)}

\* Python None / JSON null
Null == [null |-> TRUE]
IsNull(v) == "null" \in DOMAIN v

\* json.loads of a text that is JSON of something other than an object
JsonArray == [not_a_dict |-> "array"]
IsDict(v) == "not_a_dict" \notin DOMAIN v

\* dict.get(key, default)
Get(d, key, default) == IF key \in DOMAIN d THEN d[key] ELSE default

\* the text every failure path of get_gemini_response returns: prose of
\* generate_enhanced_fallback_response, which is not JSON
FallbackText == [json |-> FALSE]

\* get_gemini_response, by what the call of the external service came to
get_gemini_response(outcome) ==
    IF outcome.kind = "status_200" /\ outcome.choices
        THEN outcome.content
        ELSE FallbackText

\* json.loads(response)
json_loads(response) == IF response.json THEN response.value ELSE Raised

create_intelligent_fallback_analysis(transactions_df, campaign_df, targets_df) ==
    LET from_transactions ==
            <<"cash_visibility", "days_cash_on_hand", "payment_stp_rate",
              "cost_per_transaction">>
        from_targets == <<"forecast_accuracy", "budget_vs_actual_spend">>
        from_campaigns == <<"marketing_spend_roi", "customer_acquisition_cost">>
        transactions_ok ==
            Len(transactions_df.rows) > 0 /\ "Amount" \in transactions_df.cols
        targets_ok == Len(targets_df.rows) > 0 /\ "Metric_Name" \in targets_df.cols
        campaigns_ok ==
            /\ Len(campaign_df.rows) > 0
            /\ "Spend" \in campaign_df.cols
            /\ "Acquisitions" \in campaign_df.cols
        relevant_kpis ==
            (IF transactions_ok THEN from_transactions ELSE <<>>)
            \o (IF targets_ok THEN from_targets ELSE <<>>)
            \o (IF campaigns_ok THEN from_campaigns ELSE <<>>)
        irrelevant_kpis ==
            (IF transactions_ok THEN <<>> ELSE from_transactions)
            \o (IF targets_ok THEN <<>> ELSE from_targets)
            \o (IF campaigns_ok THEN <<>> ELSE from_campaigns)
        total_data_points ==
            Len(transactions_df.rows) + Len(campaign_df.rows) + Len(targets_df.rows)
        data_quality ==
            IF total_data_points > 1000 THEN "excellent"
            ELSE IF total_data_points > 100 THEN "good"
            ELSE "fair"
        recommendations ==
            (IF Len(relevant_kpis) < 4
                THEN <<"Consider adding more comprehensive data for better analysis">>
                ELSE <<>>)
            \o (IF Len(transactions_df.rows) = 0
                THEN <<"Add transaction data for cash flow analysis">> ELSE <<>>)
            \o (IF Len(campaign_df.rows) = 0
                THEN <<"Add campaign data for marketing analysis">> ELSE <<>>)
    IN  [relevant_kpis |-> relevant_kpis, irrelevant_kpis |-> irrelevant_kpis,
         data_quality |-> data_quality, recommendations |-> recommendations]

\* the inner try of analyze_data_with_gemini: json.loads, then the print
\* that evaluates len(analysis.get('relevant_kpis', []))
parse_analysis(response) ==
    LET parsed == json_loads(response)
    IN  IF IsRaised(parsed) THEN Raised                     \* JSONDecodeError
        ELSE IF ~IsDict(parsed) THEN Raised                  \* AttributeError
        ELSE parsed

analyze_data_with_gemini(transactions_df, campaign_df, targets_df, outcome) ==
    OnException(parse_analysis(get_gemini_response(outcome)),
                create_intelligent_fallback_analysis(transactions_df, campaign_df,
                                                     targets_df))

\* the KPI function behind a name
CalculateKpi(name, transactions_df, campaign_df, targets_df) ==
    CASE name = "cash_visibility" -> calculate_cash_visibility(transactions_df)
      [] name = "days_cash_on_hand" ->
            calculate_days_cash_on_hand(transactions_df, targets_df)
      [] name = "forecast_accuracy" -> calculate_forecast_accuracy(targets_df)
      [] name = "budget_vs_actual_spend" ->
            calculate_budget_vs_actual_spend(campaign_df, targets_df)
      [] name = "payment_stp_rate" -> calculate_payment_stp_rate(transactions_df)
      [] name = "cost_per_transaction" ->
            calculate_cost_per_transaction(transactions_df)
      [] name = "marketing_spend_roi" ->
            calculate_marketing_spend_roi(transactions_df, campaign_df)
      [] name = "customer_acquisition_cost" ->
            calculate_customer_acquisition_cost(campaign_df)

calculate_relevant_kpis(transactions_df, campaign_df, targets_df, the_analysis) ==
    LET relevant_kpis == Get(the_analysis, "relevant_kpis", <<>>)
    IN  [name \in KpiSet |->
            IF InList(name, relevant_kpis)
                THEN safe_float(CalculateKpi(name, transactions_df, campaign_df,
                                             targets_df))
                ELSE Null]

\* ---- inputs of the pipeline

PipelineTransactions ==
    {f \in TxFrames : "Date" \notin f.cols /\ Len(f.rows) <= MaxPipelineRows}

PipelineCampaigns ==
    {f \in CampaignFrames :
        /\ f.cols \in {{}, {"Spend", "Acquisitions"}}
        /\ f.rows \in {<<>>, <<CampaignRow(40, 2)>>}}

PipelineTargets ==
    {f \in TargetFrames :
        f.rows \in {<<>>, <<TargetRow("Current_Cash", 1000)>>}}

PipelineInputs ==
    [transactions_df : PipelineTransactions, campaign_df : PipelineCampaigns,
     targets_df : PipelineTargets]

\* the relevant_kpis lists a classifier answer carries
RelevantLists == {<<>>, KpiNames} \cup {<<name>> : name \in KpiSet}

\* the content of a 200 answer: text that is not JSON, JSON that is not an
\* object, an object without the key, an object with a list under the key
ClassifierContents ==
    {[json |-> FALSE]}
    \cup {[json |-> TRUE, value |-> v] :
            v \in {JsonArray, [data_quality |-> "good"]}
                  \cup {[relevant_kpis |-> l] : l \in RelevantLists}}

\* what the call of the external classifier can come to
ClassifierOutcomes ==
    {[kind |-> k, choices |-> FALSE, content |-> FallbackText] :
        k \in {"no_api_key", "connection_error", "timeout", "status_429",
               "status_500", "status_200"}}
    \cup {[kind |-> "status_200", choices |-> TRUE, content |-> c] :
            c \in ClassifierContents}

\* ---- the two steps

AnalyzeDataWithGemini ==
    /\ rel_pc = "start"
    /\ \E outcome \in ClassifierOutcomes :
        /\ classifier' = outcome
        /\ analysis' = analyze_data_with_gemini(rel_frames.transactions_df,
                            rel_frames.campaign_df, rel_frames.targets_df, outcome)
    /\ rel_pc' = "analyzed"
    /\ UNCHANGED <<rel_frames, kpis>>
    /\ UNCHANGED notRelevance

CalculateRelevantKpis ==
    /\ rel_pc = "analyzed"
    /\ kpis' = calculate_relevant_kpis(rel_frames.transactions_df,
                    rel_frames.campaign_df, rel_frames.targets_df, analysis)
    /\ rel_pc' = "done"
    /\ UNCHANGED <<rel_frames, classifier, analysis>>
    /\ UNCHANGED notRelevance

InitRelevance ==
    /\ rel_frames \in PipelineInputs
    /\ classifier = Nothing
    /\ analysis = Nothing
    /\ kpis = Nothing
    /\ rel_pc = "start"
    /\ IdleExcel /\ IdleKpi /\ IdleAnalyzer /\ IdleCalls

NextRelevance == AnalyzeDataWithGemini \/ CalculateRelevantKpis

SpecRelevance == InitRelevance /\ [][NextRelevance]_vars

-----------------------------------------------------------------------------
(* Properties of the relevance pipeline *)

\* the KPIs whose formula needs the Amount column of the transactions
AmountKpis ==
    {"cash_visibility", "days_cash_on_hand", "payment_stp_rate",
     "cost_per_transaction"}

\* C2: a KPI whose required input column is entirely absent is reported as
\* null by the pipeline, for every outcome of the external classifier.
C2_AbsentColumnIsNull ==
    (rel_pc = "done" /\ "Amount" \notin rel_frames.transactions_df.cols) =>
        \A name \in AmountKpis : IsNull(kpis[name])

\* the analysis is the rule-based one
RuleBased ==
    analysis = create_intelligent_fallback_analysis(rel_frames.transactions_df,
                    rel_frames.campaign_df, rel_frames.targets_df)

\* the KPIs whose formula reads the rows of the transactions table
ReadsTransactionRows == AmountKpis \cup {"marketing_spend_roi"}

\* C8: with an empty transactions table and the rule-based relevance result,
\* the four transaction KPIs are null, no KPI reported as non-null reads
\* transaction rows, and customer_acquisition_cost is computed when the
\* campaigns table has rows with Spend and Acquisitions.
C8_EmptyTransactions ==
    (rel_pc = "done" /\ RuleBased /\ Len(rel_frames.transactions_df.rows) = 0) =>
        /\ \A name \in AmountKpis : IsNull(kpis[name])
        /\ \A name \in KpiSet : ~IsNull(kpis[name]) => name \notin ReadsTransactionRows
        /\ ( /\ Len(rel_frames.campaign_df.rows) > 0
             /\ {"Spend", "Acquisitions"} \subseteq rel_frames.campaign_df.cols )
           => ~IsNull(kpis["customer_acquisition_cost"])

-----------------------------------------------------------------------------
(* IntelligentFinancialAnalyzer.  Every date of a modelled table lies in    *)
(* one calendar month, so a table has at most one monthly total.  The       *)
(* weekday, standard-deviation and fitted-slope statistics of the pattern   *)
(* helpers are not computed: a section of patterns is modelled by its       *)
(* presence.                                                                *)

EmptyDict == [k \in {} |-> TRUE]

\* a finite float whose value is not computed (a fractional power)
Inexact == [inexact |-> TRUE]
IsInexact(x) == "inexact" \in DOMAIN x

\* series of one column
Column(rows, field) == [i \in 1..Len(rows) |-> rows[i][field]]

RECURSIVE SumSeq(_)
SumSeq(series) == IF series = <<>> THEN 0 ELSE series[1] + SumSeq(Tail(series))

\* series.mean() of a series that is not empty
MeanSeq(series) == Rat(SumSeq(series), Len(series))

\* a series of floats: its values are rationals, NaN among them
NaN == Rat(0, 0)
IsNaN(x) == x.d = 0 /\ x.n = 0
Floats(series) == [i \in 1..Len(series) |-> Num(series[i])]

RECURSIVE SumFloats(_)
SumFloats(series) ==
    IF series = <<>> THEN Zero ELSE RAdd(series[1], SumFloats(Tail(series)))

\* series.mean() of a series that is not empty
MeanFloats(series) == RDiv(SumFloats(series), Num(Len(series)))

\* the series with its NaN left in
with_nan(series) == series

\* series.dropna()
series_dropna(series) == SelectSeq(series, LAMBDA x : ~IsNaN(x))

growth_rate_try(series) ==
    IF Len(series) < 2 THEN Zero
    ELSE LET series_clean == series_dropna(series)
             half == Len(series_clean) \div 2
             first_half == MeanFloats(SubSeq(series_clean, 1, half))
             second_half ==
                MeanFloats(SubSeq(series_clean, half + 1, Len(series_clean)))
             growth_rate == RDiv(RSub(second_half, first_half), first_half)
         IN  IF Len(series_clean) < 2 THEN Zero
             ELSE IF REq(first_half, Zero) \/ IsNaN(first_half) \/ IsNaN(second_half)
                 THEN Zero
             ELSE IF ~IsNaN(growth_rate) /\ growth_rate # Rat(1, 0)
                 THEN growth_rate
             ELSE Zero

_calculate_growth_rate(series) == OnException(growth_rate_try(series), Zero)

\* _analyze_cash_flow on a table whose dates lie in one month
_analyze_cash_flow(transactions_df) ==
    LET rows == transactions_df.rows
        total == SumField(rows, "Amount")
    IN  [monthly_average |-> IF rows = <<>> THEN Zero ELSE Num(total),
         monthly_volatility |-> Zero,             \* std of at most one month is NaN
         positive_months |-> IF rows # <<>> /\ total > 0 THEN 1 ELSE 0,
         negative_months |-> IF rows # <<>> /\ total < 0 THEN 1 ELSE 0,
         cash_flow_trend |-> Zero,                \* fewer than two months
         burn_rate |-> IF rows # <<>> /\ total < 0 THEN Num(Abs(total)) ELSE Zero]

_calculate_spend_efficiency(campaigns_df, transactions_df) ==
    LET total_spend == SumField(campaigns_df.rows, "Spend")
        positive_amounts == SelectSeq(transactions_df.rows, LAMBDA r : r.Amount > 0)
        total_revenue == SumField(positive_amounts, "Amount")
    IN  IF "Amount" \notin transactions_df.cols THEN Zero       \* KeyError, caught
        ELSE IF total_spend = 0 THEN Zero
        ELSE Rat(total_revenue, total_spend)

_calculate_performance_metrics(transactions_df, campaigns_df) ==
    LET rows == transactions_df.rows
        successful_transactions == Len(SelectSeq(rows, LAMBDA r : r.Amount # 0))
        total_spend == SumField(campaigns_df.rows, "Spend")
        total_acquisitions == SumField(campaigns_df.rows, "Acquisitions")
    IN  (IF "Amount" \in transactions_df.cols
            THEN [transaction_success_rate |->
                    IF Len(rows) > 0 THEN Rat(successful_transactions, Len(rows))
                    ELSE Zero]
            ELSE EmptyDict)
        @@
        (IF {"Spend", "Acquisitions"} \subseteq campaigns_df.cols
            THEN [acquisition_efficiency |->
                    IF total_spend > 0 THEN Rat(total_acquisitions, total_spend)
                    ELSE Zero]
            ELSE EmptyDict)

_calculate_current_metrics(transactions_df, campaigns_df) ==
    LET rows == transactions_df.rows
        positive_amounts == Column(SelectSeq(rows, LAMBDA r : r.Amount > 0), "Amount")
        negative_amounts == Column(SelectSeq(rows, LAMBDA r : r.Amount < 0), "Amount")
        total_revenue == Num(SumSeq(positive_amounts))
        total_expenses == Num(Abs(SumSeq(negative_amounts)))
        total_spend == SumField(campaigns_df.rows, "Spend")
        total_acquisitions == SumField(campaigns_df.rows, "Acquisitions")
    IN  (IF "Amount" \in transactions_df.cols
            THEN [revenue |->
                    [total_revenue |-> total_revenue,
                     total_expenses |-> total_expenses,
                     net_income |-> RSub(total_revenue, total_expenses),
                     avg_transaction_value |->
                        IF positive_amounts # <<>> THEN MeanSeq(positive_amounts)
                        ELSE Zero,
                     transaction_count |-> Len(rows),
                     revenue_growth_rate |->
                        _calculate_growth_rate(Floats(positive_amounts))]]
            ELSE EmptyDict)
        @@
        (IF {"Date", "Amount"} \subseteq transactions_df.cols
            THEN [cash_flow |-> _analyze_cash_flow(transactions_df)]
            ELSE EmptyDict)
        @@
        (IF {"Spend", "Acquisitions"} \subseteq campaigns_df.cols
            THEN [marketing |->
                    [total_spend |-> Num(total_spend),
                     total_acquisitions |-> Num(total_acquisitions),
                     cost_per_acquisition |->
                        IF total_acquisitions > 0
                            THEN Rat(total_spend, total_acquisitions) ELSE Zero,
                     acquisition_growth_rate |->
                        _calculate_growth_rate(
                            Floats(Column(campaigns_df.rows, "Acquisitions"))),
                     spend_efficiency |->
                        _calculate_spend_efficiency(campaigns_df, transactions_df)]]
            ELSE EmptyDict)
        @@
        [performance |-> _calculate_performance_metrics(transactions_df, campaigns_df)]

\* the month every date of the model's tables lies in
MonthOf(transactions_df) == 1

_detect_seasonality(transactions_df) ==
    LET total == SumField(transactions_df.rows, "Amount")
        flat == [peak_month |-> 0, low_month |-> 0, seasonality_strength |-> Zero]
    IN  IF "Date" \notin transactions_df.cols THEN EmptyDict
        ELSE IF "Amount" \notin transactions_df.cols THEN flat    \* KeyError, caught
        ELSE IF transactions_df.rows = <<>> \/ total = 0 THEN flat
        ELSE [peak_month |-> MonthOf(transactions_df),
              low_month |-> MonthOf(transactions_df),
              seasonality_strength |-> Zero]

\* a section of patterns whose statistics are not computed
Section(name) == [section |-> name]

_identify_patterns(transactions_df, campaigns_df) ==
    (IF {"Date", "Amount"} \subseteq transactions_df.cols
        THEN [transaction_patterns |-> Section("transaction_patterns")]
        ELSE EmptyDict)
    @@
    (IF {"Timestamp", "Spend"} \subseteq campaigns_df.cols
        THEN [campaign_patterns |-> Section("campaign_patterns")]
        ELSE EmptyDict)
    @@
    [seasonality |-> _detect_seasonality(transactions_df)]

\* x * base ** (days / 30) on Python floats: exact when it is, Inexact when
\* the power is fractional
TimesPower(x, base, days) ==
    IF REq(x, Zero) THEN Zero
    ELSE IF REq(base, Num(1)) THEN x
    ELSE IF REq(base, Zero) THEN Zero
    ELSE Inexact

_assess_risk(the_metrics) ==
    LET negative_cash_flow ==
            /\ "cash_flow" \in DOMAIN the_metrics
            /\ RLt(the_metrics.cash_flow.monthly_average, Zero)
        high_volatility ==
            /\ "cash_flow" \in DOMAIN the_metrics
            /\ RLt(the_metrics.cash_flow.monthly_average,
                   the_metrics.cash_flow.monthly_volatility)
        declining_revenue ==
            /\ "revenue" \in DOMAIN the_metrics
            /\ RLt(the_metrics.revenue.revenue_growth_rate, Rat(-1, 10))
        high_cpa ==
            /\ "marketing" \in DOMAIN the_metrics
            /\ RLt(Num(100), the_metrics.marketing.cost_per_acquisition)
        risk_factors ==
            Cardinality({i \in 1..4 :
                <<negative_cash_flow, high_volatility, declining_revenue, high_cpa>>[i]})
    IN  IF risk_factors >= 3 THEN "high"
        ELSE IF risk_factors >= 1 THEN "medium"
        ELSE "low"

\* _predict_for_timeframe: Raised is the ZeroDivisionError of
\* (projected_revenue - current_revenue) / current_revenue
_predict_for_timeframe(the_metrics, days) ==
    LET current_revenue == the_metrics.revenue.total_revenue
        projected_revenue ==
            TimesPower(current_revenue,
                       RAdd(Num(1), the_metrics.revenue.revenue_growth_rate), days)
        from_revenue ==
            [projected_revenue |-> projected_revenue,
             revenue_growth |->
                IF IsInexact(projected_revenue) THEN Inexact
                ELSE RMul(RDiv(RSub(projected_revenue, current_revenue),
                               current_revenue), Num(100))]
        trend == the_metrics.cash_flow.cash_flow_trend
        from_cash_flow ==
            [projected_cash_flow |->
                RMul(RMul(the_metrics.cash_flow.monthly_average, Rat(days, 30)),
                     RAdd(Num(1), trend)),
             cash_flow_trend |-> RMul(trend, Num(100))]
        current_cpa == the_metrics.marketing.cost_per_acquisition
        projected_acquisitions ==
            TimesPower(the_metrics.marketing.total_acquisitions,
                       RAdd(Num(1), the_metrics.marketing.acquisition_growth_rate),
                       days)
        from_marketing ==
            [projected_acquisitions |-> projected_acquisitions,
             projected_marketing_spend |->
                IF IsInexact(projected_acquisitions) THEN Inexact
                ELSE RMul(projected_acquisitions, current_cpa),
             projected_cpa |-> current_cpa]
    IN  IF "revenue" \in DOMAIN the_metrics /\ REq(current_revenue, Zero)
            THEN Raised
        ELSE (IF "revenue" \in DOMAIN the_metrics THEN from_revenue ELSE EmptyDict)
             @@ (IF "cash_flow" \in DOMAIN the_metrics THEN from_cash_flow ELSE EmptyDict)
             @@ (IF "marketing" \in DOMAIN the_metrics THEN from_marketing ELSE EmptyDict)
             @@ [risk_level |-> _assess_risk(the_metrics)]

timeframes ==
    ("30_days" :> 30) @@ ("45_days" :> 45) @@ ("3_months" :> 90)
    @@ ("6_months" :> 180) @@ ("1_year" :> 365)

\* _create_prediction_scenarios: an exception of one horizon leaves the loop
_create_prediction_scenarios(the_metrics) ==
    LET predictions ==
            [name \in DOMAIN timeframes |->
                _predict_for_timeframe(the_metrics, timeframes[name])]
    IN  IF \E name \in DOMAIN timeframes : IsRaised(predictions[name])
            THEN Raised
            ELSE predictions

_create_fallback_insights ==
    [strengths |-> <<"Revenue data available for analysis",
                     "Transaction patterns identified">>,
     weaknesses |-> <<"Limited historical trend data",
                      "Need more comprehensive metrics">>,
     opportunities |-> <<"Growth potential in current metrics",
                         "Optimization opportunities identified">>,
     risks |-> <<"Monitor cash flow volatility", "Track expense growth patterns">>,
     recommendations |-> <<"Continue data collection for better insights",
                           "Implement regular financial monitoring">>,
     executive_summary |-> "Financial analysis completed with available data. Key metrics show potential for growth optimization."]

\* _call_gemini_api: the content of a 200 answer, else a text that is not JSON
_call_gemini_api(outcome) ==
    IF outcome.kind = "status_200" /\ outcome.choices
        THEN outcome.content
        ELSE [json |-> FALSE]

_generate_ai_insights(outcome) ==
    OnException(json_loads(_call_gemini_api(outcome)), _create_fallback_insights)

_create_fallback_analysis ==
    [current_analysis |-> [error |-> "Analysis failed"],
     patterns |-> EmptyDict,
     ai_insights |-> [executive_summary |-> "Analysis unavailable"],
     predictions |-> EmptyDict,
     file_info |-> EmptyDict]

\* ---- inputs of analyze_financial_data

AnalyzerTransactions == {f \in TxFrames : "Category" \notin f.cols}

AnalyzerCampaigns ==
    {f \in CampaignFrames : f.cols \in {{}, {"Spend", "Acquisitions"}}}

FileInfos == {Null, [processing_method |-> "bulletproof"]}

AnalyzerInputs ==
    [transactions_df : AnalyzerTransactions, campaign_df : AnalyzerCampaigns,
     targets_df : {NoFrame}, file_info : FileInfos]

\* the answers of the insight service
InsightOutcomes ==
    {[kind |-> k, choices |-> FALSE, content |-> [json |-> FALSE]] :
        k \in {"no_api_key", "connection_error", "status_500"}}
    \cup {[kind |-> "status_200", choices |-> TRUE, content |-> c] :
            c \in {[json |-> FALSE],
                   [json |-> TRUE, value |-> JsonArray],
                   [json |-> TRUE,
                    value |-> [executive_summary |-> "Summary of the service"]]}}

\* ---- analyze_financial_data, step by step

CalculateCurrentMetrics ==
    /\ an_pc = "start"
    /\ current_metrics' =
            _calculate_current_metrics(an_frames.transactions_df, an_frames.campaign_df)
    /\ an_pc' = "metrics"
    /\ UNCHANGED <<an_frames, patterns, ai_insights, an_result>>
    /\ UNCHANGED notAnalyzer

IdentifyPatterns ==
    /\ an_pc = "metrics"
    /\ patterns' = _identify_patterns(an_frames.transactions_df, an_frames.campaign_df)
    /\ an_pc' = "patterns"
    /\ UNCHANGED <<an_frames, current_metrics, ai_insights, an_result>>
    /\ UNCHANGED notAnalyzer

GenerateAiInsights ==
    /\ an_pc = "patterns"
    /\ \E outcome \in InsightOutcomes : ai_insights' = _generate_ai_insights(outcome)
    /\ an_pc' = "insights"
    /\ UNCHANGED <<an_frames, current_metrics, patterns, an_result>>
    /\ UNCHANGED notAnalyzer

\* step 4 and the return, or the except clause of analyze_financial_data
CreatePredictionScenarios ==
    /\ an_pc = "insights"
    /\ LET predictions == _create_prediction_scenarios(current_metrics)
       IN  an_result' =
            IF IsRaised(predictions) THEN _create_fallback_analysis
            ELSE [current_metrics |-> current_metrics,
                  patterns |-> patterns,
                  ai_insights |-> ai_insights,
                  predictions |-> predictions,
                  file_info |-> IF IsNull(an_frames.file_info)
                                    THEN EmptyDict ELSE an_frames.file_info]
    /\ an_pc' = "done"
    /\ UNCHANGED <<an_frames, current_metrics, patterns, ai_insights>>
    /\ UNCHANGED notAnalyzer

InitAnalyzer ==
    /\ an_frames \in AnalyzerInputs
    /\ an_pc = "start"
    /\ current_metrics = Nothing
    /\ patterns = Nothing
    /\ ai_insights = Nothing
    /\ an_result = Nothing
    /\ IdleExcel /\ IdleKpi /\ IdleRelevance /\ IdleCalls

NextAnalyzer ==
    \/ CalculateCurrentMetrics
    \/ IdentifyPatterns
    \/ GenerateAiInsights
    \/ CreatePredictionScenarios

SpecAnalyzer == InitAnalyzer /\ [][NextAnalyzer]_vars

-----------------------------------------------------------------------------
(* Properties of analyze_financial_data *)

\* C4: for every input (including a transactions table whose total_revenue
\* is 0) the returned result carries the current_metrics, the patterns and
\* the five per-horizon predictions computed from the data, a projected value
\* whose computation fails being 0.0.
C4_ErrorsAreContained ==
    an_pc = "done" =>
        /\ {"current_metrics", "patterns", "predictions"} \subseteq DOMAIN an_result
        /\ an_result.current_metrics = current_metrics
        /\ an_result.patterns = patterns
        /\ DOMAIN an_result.predictions = DOMAIN timeframes
        /\ \A name \in DOMAIN timeframes :
            ( /\ "revenue" \in DOMAIN current_metrics
              /\ REq(current_metrics.revenue.total_revenue, Zero) )
            => an_result.predictions[name].revenue_growth = Zero

-----------------------------------------------------------------------------
(* The cleaners of bulletproof_excel_processor.py, cell by cell.  A frame   *)
(* read from a sheet is [columns, rows]: the column names in sheet order    *)
(* and the rows, each [idx, cells] with idx the label of the row in the     *)
(* frame's index and cells the values in column order.                      *)

\* the values of a cell
Missing   == [missing |-> TRUE]       \* NaN / NaT / an empty spreadsheet cell
Generated == [generated |-> TRUE]     \* a value of a generated column
Text(s)   == [text |-> s]
Number(q) == [num |-> q]
DateOn(d) == [date |-> d]             \* a Timestamp: the day of January 2024

IsMissing(c)   == "missing" \in DOMAIN c
IsGenerated(c) == "generated" \in DOMAIN c
IsText(c)      == "text" \in DOMAIN c
IsNumber(c)    == "num" \in DOMAIN c
IsDate(c)      == "date" \in DOMAIN c

\* str.strip() of blanks
RECURSIVE lstrip(_)
lstrip(s) ==
    IF Len(s) > 0 /\ SubSeq(s, 1, 1) = " " THEN lstrip(SubSeq(s, 2, Len(s)))
    ELSE s

RECURSIVE rstrip(_)
rstrip(s) ==
    IF Len(s) > 0 /\ SubSeq(s, Len(s), Len(s)) = " "
        THEN rstrip(SubSeq(s, 1, Len(s) - 1))
    ELSE s

strip(s) == rstrip(lstrip(s))

Digits == "0123456789"
IsDigits(s) ==
    Len(s) > 0 /\ \A i \in 1..Len(s) : IndexIn(SubSeq(s, i, i), Digits, 1) > 0

RECURSIVE IntOf(_)
IntOf(s) ==
    IF Len(s) = 0 THEN 0
    ELSE 10 * IntOf(SubSeq(s, 1, Len(s) - 1))
            + IndexIn(SubSeq(s, Len(s), Len(s)), Digits, 1) - 1

\* pd.to_datetime(x, errors='coerce') of one cell: a Timestamp stays, a
\* number counts nanoseconds from the epoch (day 0 here), a string is parsed
\* (the strings of the model that are dates are "2024-01-DD"), anything
\* else becomes NaT
to_datetime(c) ==
    IF IsDate(c) \/ IsGenerated(c) THEN c
    ELSE IF IsNumber(c) THEN (IF c.num.d # 0 THEN DateOn(0) ELSE Missing)
    ELSE IF /\ IsText(c)
            /\ Len(c.text) = 10
            /\ SubSeq(c.text, 1, 8) = "2024-01-"
            /\ IsDigits(SubSeq(c.text, 9, 10))
            /\ IntOf(SubSeq(c.text, 9, 10)) \in 1..31
        THEN DateOn(IntOf(SubSeq(c.text, 9, 10)))
    ELSE Missing

\* pd.to_numeric(x, errors='coerce') of one cell: a number stays (NaN is
\* missing), a string of digits or "inf" is parsed, anything else becomes NaN
to_numeric(c) ==
    IF IsGenerated(c) THEN c
    ELSE IF IsNumber(c)
        THEN (IF c.num.d = 0 /\ c.num.n = 0 THEN Missing ELSE c)
    ELSE IF IsText(c) /\ IsDigits(c.text) THEN Number(Num(IntOf(c.text)))
    ELSE IF IsText(c) /\ c.text = "inf" THEN Number(Rat(1, 0))
    ELSE Missing

\* .round(2) of one cell
round_2(c) == IF IsNumber(c) THEN Number(Round2(c.num)) ELSE c

\* int(x): truncation toward zero
Truncate(q) ==
    IF q.n >= 0 THEN Num(q.n \div q.d) ELSE Num(-((-q.n) \div q.d))

\* .astype(int) of one cell of a column without NaN
astype_int(c) == IF IsNumber(c) THEN Number(Truncate(c.num)) ELSE c

\* .astype(str).str.strip() of one cell of a text column: str(nan) is 'nan'
astype_str_strip(c) ==
    IF IsText(c) THEN Text(strip(c.text))
    ELSE IF IsMissing(c) THEN Text("nan")
    ELSE c

\* the frame's use of a column name
HasColumn(df, col) == \E i \in 1..Len(df.columns) : df.columns[i] = col
Pos(df, col) == CHOOSE i \in 1..Len(df.columns) : df.columns[i] = col
AsColumns(names) == [i \in 1..Len(names) |-> [name |-> names[i], data |-> ""]]

\* df[col] = f(df[col])
MapColumn(df, col, F(_)) ==
    [df EXCEPT !.rows =
        [r \in 1..Len(df.rows) |->
            [df.rows[r] EXCEPT !.cells[Pos(df, col)] = F(@)]]]

\* df.dropna(subset=[col])
dropna(df, col) ==
    LET Kept(row) == ~IsMissing(row.cells[Pos(df, col)])
    IN  [df EXCEPT !.rows = SelectSeq(df.rows, Kept)]

\* df[df[col] != '']
DropEmpty(df, col) ==
    LET Kept(row) == row.cells[Pos(df, col)] # Text("")
    IN  [df EXCEPT !.rows = SelectSeq(df.rows, Kept)]

\* "if col in df.columns: to_datetime, dropna"
CleanDate(df, col) ==
    IF HasColumn(df, col) THEN dropna(MapColumn(df, col, to_datetime), col)
    ELSE df

\* "if col in df.columns: to_numeric, dropna", before the rounding
CleanNumeric(df, col) ==
    IF HasColumn(df, col) THEN dropna(MapColumn(df, col, to_numeric), col)
    ELSE df

\* "if col in df.columns: astype(str).str.strip(), drop the empty ones"
CleanText(df, col) ==
    IF HasColumn(df, col)
        THEN DropEmpty(MapColumn(df, col, astype_str_strip), col)
    ELSE df

RoundColumn(df, col) ==
    IF HasColumn(df, col) THEN MapColumn(df, col, round_2) ELSE df

_clean_transactions_data(df) ==
    IF CleanRaises(AsColumns(df.columns), "transactions") THEN Raised
    ELSE LET dated   == CleanDate(df, "date")
             amounts == RoundColumn(CleanNumeric(dated, "amount"), "amount")
         IN  CleanText(CleanText(amounts, "description"), "category")

\* astype(int) raises on a column that holds an infinity
_clean_campaigns_data(df) ==
    IF CleanRaises(AsColumns(df.columns), "campaigns") THEN Raised
    ELSE LET dated == CleanDate(df, "timestamp")
             spend == RoundColumn(CleanNumeric(dated, "spend"), "spend")
             acq   == CleanNumeric(spend, "acquisitions")
             Infinite(row) ==
                LET c == row.cells[Pos(acq, "acquisitions")]
                IN  IsNumber(c) /\ c.num.d = 0
         IN  IF /\ HasColumn(acq, "acquisitions")
                /\ \E r \in 1..Len(acq.rows) : Infinite(acq.rows[r])
                 THEN Raised
             ELSE LET ints == IF HasColumn(acq, "acquisitions")
                                  THEN MapColumn(acq, "acquisitions", astype_int)
                                  ELSE acq
                  IN  CleanText(CleanText(ints, "campaign_id"), "channel")

_clean_targets_data(df) ==
    IF CleanRaises(AsColumns(df.columns), "targets") THEN Raised
    ELSE LET named == CleanText(df, "metric_name")
         IN  RoundColumn(CleanNumeric(named, "value"), "value")

-----------------------------------------------------------------------------
(* The cleaners, one call at a time *)

\* the cells a column of a cleaner's input may hold
CleanerCells ==
    [date         |-> {DateOn(5), Text("2024-01-09"), Text("n/a")},
     amount       |-> {Number(Rat(12345, 1000)), Text("40"), Text("abc"), Missing},
     description  |-> {Text(" Rent "), Text("  ")},
     category     |-> {Text("Revenue"), Missing},
     timestamp    |-> {DateOn(5), Missing},
     campaign_id  |-> {Text("C1"), Text("")},
     channel      |-> {Text(" Email"), Missing},
     spend        |-> {Number(Num(40)), Text("abc")},
     acquisitions |-> {Number(Rat(27, 10)), Text("inf"), Missing},
     metric_name  |-> {Text("Current_Cash"), Text(" "), Missing},
     value        |-> {Number(Rat(1, 3)), Text("100"), Text("abc"), Missing}]

\* the rows over the given columns, and the frames of at most MaxCleanRows
\* of them, indexed 0, 1, ... as read_excel indexes them
CellRows(columns, cells) ==
    {cs \in [1..Len(columns) -> UNION {cells[columns[i]] : i \in 1..Len(columns)}] :
        \A i \in 1..Len(columns) : cs[i] \in cells[columns[i]]}

FramesOver(columns, cells, max) ==
    UNION { { [columns |-> columns,
               rows    |-> [i \in 1..n |-> [idx |-> i - 1, cells |-> cs[i]]]]
              : cs \in [1..n -> CellRows(columns, cells)] }
            : n \in 0..max }

\* the frames given to the cleaner of a role: all its fields, or some only
partial_columns ==
    [transactions |-> <<"category", "amount">>,
     campaigns    |-> <<"channel">>,
     targets      |-> <<"value">>]

CleanerFrames(role) ==
    FramesOver(required_cols[role], CleanerCells, MaxCleanRows)
        \cup FramesOver(partial_columns[role], CleanerCells, MaxCleanRows)

CleanCall(fn, df, result) == [fn |-> fn, df |-> df, result |-> result]

\* what a call of a cleaner or of a sheet normalizer leaves alone
notCleaner == <<xlVars, kpiVars, relVars, anVars, growth_call, svcVars>>

CallCleanTransactions ==
    /\ clean_call = NoCleanCall
    /\ \E df \in CleanerFrames("transactions") :
          clean_call' = CleanCall("_clean_transactions_data", df,
                                  _clean_transactions_data(df))
    /\ UNCHANGED notCleaner

CallCleanCampaigns ==
    /\ clean_call = NoCleanCall
    /\ \E df \in CleanerFrames("campaigns") :
          clean_call' = CleanCall("_clean_campaigns_data", df,
                                  _clean_campaigns_data(df))
    /\ UNCHANGED notCleaner

CallCleanTargets ==
    /\ clean_call = NoCleanCall
    /\ \E df \in CleanerFrames("targets") :
          clean_call' = CleanCall("_clean_targets_data", df,
                                  _clean_targets_data(df))
    /\ UNCHANGED notCleaner

InitCleaner ==
    /\ clean_call = NoCleanCall
    /\ growth_call = NoGrowthCall
    /\ IdleService
    /\ IdleExcel /\ IdleKpi /\ IdleRelevance /\ IdleAnalyzer

NextCleaner ==
    \/ CallCleanTransactions
    \/ CallCleanCampaigns
    \/ CallCleanTargets

SpecCleaner == InitCleaner /\ [][NextCleaner]_vars

-----------------------------------------------------------------------------
(* Properties of the cleaners *)

\* the fields each cleaner treats as dates, as numbers and as text
date_fields ==
    [_clean_transactions_data |-> {"date"},
     _clean_campaigns_data    |-> {"timestamp"},
     _clean_targets_data      |-> {}]
numeric_fields ==
    [_clean_transactions_data |-> {"amount"},
     _clean_campaigns_data    |-> {"spend", "acquisitions"},
     _clean_targets_data      |-> {"value"}]
text_fields ==
    [_clean_transactions_data |-> {"description", "category"},
     _clean_campaigns_data    |-> {"campaign_id", "channel"},
     _clean_targets_data      |-> {"metric_name"}]

DateParses(c) == ~IsMissing(to_datetime(c))
NumericParses(c) == ~IsMissing(to_numeric(c))
\* a cell without text (an empty spreadsheet cell) is an empty text field
NonEmptyAfterStripping(c) == IsText(c) /\ strip(c.text) # ""

\* the row's date parses, its numeric fields parse and its text fields are
\* non-empty after stripping
RowIsClean(fn, df, row) ==
    \A i \in 1..Len(df.columns) :
        /\ df.columns[i] \in date_fields[fn] => DateParses(row.cells[i])
        /\ df.columns[i] \in numeric_fields[fn] => NumericParses(row.cells[i])
        /\ df.columns[i] \in text_fields[fn]
              => NonEmptyAfterStripping(row.cells[i])

IndexOf(rows) == [i \in 1..Len(rows) |-> rows[i].idx]

CleanerCalled == clean_call.fn \in DOMAIN text_fields

\* C12: the rows a cleaner returns are exactly the input rows whose date
\* parses, whose numeric fields parse and whose text fields are non-empty
\* after stripping, in their original order
C12_CleanerKeepsExactlyTheCleanRows ==
    CleanerCalled =>
        LET fn == clean_call.fn
            df == clean_call.df
            Clean(row) == RowIsClean(fn, df, row)
        IN  /\ ~IsRaised(clean_call.result)
            /\ IndexOf(clean_call.result.rows)
                  = IndexOf(SelectSeq(df.rows, Clean))

-----------------------------------------------------------------------------
(* The sheet normalizers on the rows of a sheet: _process_<role>_sheet of    *)
(* the frame of the sheet mapped to the role.                               *)

NamesOf(columns) == [i \in 1..Len(columns) |-> columns[i].name]

cleaner ==
    [transactions |-> "_clean_transactions_data",
     campaigns    |-> "_clean_campaigns_data",
     targets      |-> "_clean_targets_data"]

Cleaned(role, df) ==
    CASE role = "transactions" -> _clean_transactions_data(df)
      [] role = "campaigns"    -> _clean_campaigns_data(df)
      [] role = "targets"      -> _clean_targets_data(df)

\* map the columns, rename, generate the missing required columns (their
\* values are Generated cells), clean, rename to the canonical names
process_frame(role, df) ==
    LET cols       == AsColumns(df.columns)
        column_map == BuildColumnMap(cols, column_mappings[role],
                                     Len(column_mappings[role]))
        renamed    == RenameColumns(cols, column_map)
        filled     == EnsureRequired(renamed, required_cols[role],
                                     Len(required_cols[role]))
        generated  == [k \in 1..(Len(filled) - Len(renamed)) |-> Generated]
        frame      == [columns |-> NamesOf(filled),
                       rows    |-> [r \in 1..Len(df.rows) |->
                                      [df.rows[r] EXCEPT !.cells = @ \o generated]]]
        cleaned    == Cleaned(role, frame)
    IN  IF role = "targets" /\ TargetsFillRaises(renamed, Len(df.rows))
            THEN Raised
        ELSE IF IsRaised(cleaned) THEN Raised
        ELSE [cleaned EXCEPT
                !.columns = NamesOf(StandardizeColumns(AsColumns(@), role))]

\* the cells a column of a sheet may hold, by the name of the column
SheetCells ==
    [Date         |-> {DateOn(5), Text("n/a")},
     Description  |-> {Text("Rent"), Text(" Rent ")},
     Category     |-> {Text("Revenue"), Missing},
     Amount       |-> {Number(Num(100)), Number(Rat(12345, 1000))},
     Price        |-> {Number(Num(100)), Text("abc")},
     Type         |-> {Text("Revenue"), Text("")},
     Timestamp    |-> {DateOn(5), Missing},
     Campaign_ID  |-> {Text("C1")},
     Channel      |-> {Text("Email"), Text(" Email")},
     Spend        |-> {Number(Num(40)), Text("40")},
     Acquisitions |-> {Number(Num(2)), Number(Rat(27, 10))},
     Metric_Name  |-> {Text("Current_Cash"), Text(" ")},
     Value        |-> {Number(Num(100)), Number(Rat(1, 3)), Text("abc")},
     Goal         |-> {Number(Num(100))}]

CanonicalColumns(role) ==
    [n \in 1..Len(required_cols[role]) |->
        standard_names[role][required_cols[role][n]]]

\* the frames of the sheet mapped to a role: the canonical columns, the
\* canonical columns in another order, or other spellings of some of them
other_columns ==
    [transactions |-> {<<"Amount", "Category", "Date", "Description">>,
                       <<"Price", "Type">>},
     campaigns    |-> {},
     targets      |-> {<<"Goal">>}]

SheetFrames(role) ==
    UNION { FramesOver(columns, SheetCells, MaxCleanRows)
            : columns \in {CanonicalColumns(role)} \cup other_columns[role] }

normalizer_role ==
    [_process_transactions_sheet |-> "transactions",
     _process_campaigns_sheet    |-> "campaigns",
     _process_targets_sheet      |-> "targets"]

Normalized == clean_call.fn \in DOMAIN normalizer_role

NormalizeTransactions ==
    /\ clean_call = NoCleanCall
    /\ \E df \in SheetFrames("transactions") :
          clean_call' = CleanCall("_process_transactions_sheet", df,
                                  process_frame("transactions", df))
    /\ UNCHANGED notCleaner

NormalizeCampaigns ==
    /\ clean_call = NoCleanCall
    /\ \E df \in SheetFrames("campaigns") :
          clean_call' = CleanCall("_process_campaigns_sheet", df,
                                  process_frame("campaigns", df))
    /\ UNCHANGED notCleaner

NormalizeTargets ==
    /\ clean_call = NoCleanCall
    /\ \E df \in SheetFrames("targets") :
          clean_call' = CleanCall("_process_targets_sheet", df,
                                  process_frame("targets", df))
    /\ UNCHANGED notCleaner

\* the table a normalizer returned is given to the same normalizer again
NormalizeAgain ==
    /\ Normalized
    /\ ~IsRaised(clean_call.result)
    /\ clean_call' = CleanCall(clean_call.fn, clean_call.result,
                               process_frame(normalizer_role[clean_call.fn],
                                             clean_call.result))
    /\ UNCHANGED notCleaner

InitNormalizer == InitCleaner

NextNormalizer ==
    \/ NormalizeTransactions
    \/ NormalizeCampaigns
    \/ NormalizeTargets
    \/ NormalizeAgain

SpecNormalizer == InitNormalizer /\ [][NextNormalizer]_vars

-----------------------------------------------------------------------------
(* Properties of the normalizers *)

\* the canonical field a canonical column name stands for
FieldOf(role, name) ==
    CHOOSE f \in DOMAIN standard_names[role] : standard_names[role][f] = name

\* the columns are exactly the canonical ones of the role
Canonical(role, df) ==
    /\ Len(df.columns) = Len(required_cols[role])
    /\ {df.columns[i] : i \in 1..Len(df.columns)}
          = {standard_names[role][f] : f \in DOMAIN standard_names[role]}

\* a cell that cleaning has nothing to do to
CleanCell(fn, field, c) ==
    IF field \in date_fields[fn] THEN IsDate(c)
    ELSE IF field \in numeric_fields[fn]
        THEN /\ IsNumber(c)
             /\ c.num.d # 0
             /\ IF field = "acquisitions" THEN Truncate(c.num) = c.num
                ELSE Round2(c.num) = c.num
    ELSE IsText(c) /\ c.text # "" /\ strip(c.text) = c.text

CleanRows(role, df) ==
    \A r \in 1..Len(df.rows) : \A i \in 1..Len(df.columns) :
        CleanCell(cleaner[role], FieldOf(role, df.columns[i]),
                  df.rows[r].cells[i])

\* C11: a normalizer given a table with exactly the canonical columns returns
\* the same column names (nothing renamed, nothing duplicated); when the rows
\* are clean it returns the table itself; and given its own output again it
\* returns that output unchanged
C11_NormalizingCanonicalIsIdempotent ==
    [][ LET call == clean_call'
            role == normalizer_role[call.fn]
        IN  (call.fn \in DOMAIN normalizer_role /\ Canonical(role, call.df))
            => /\ CleanRows(role, call.df) => call.result = call.df
               /\ ~IsRaised(call.result)
                     => call.result.columns = call.df.columns
               /\ (Normalized /\ call.df = clean_call.result)
                     => call.result = clean_call.result ]_vars

C11_Witness ==
    /\ Normalized
    /\ Canonical(normalizer_role[clean_call.fn], clean_call.df)
    /\ CleanRows(normalizer_role[clean_call.fn], clean_call.df)
    /\ Len(clean_call.df.rows) = MaxCleanRows
    /\ clean_call.result = clean_call.df

-----------------------------------------------------------------------------
(* Properties of calculate_cash_visibility *)

\* the frame with its rows in the order p
Permuted(df, p) == [df EXCEPT !.rows = [i \in 1..Len(df.rows) |-> df.rows[p[i]]]]

AmountWhere(df, P(_)) == SumField(SelectSeq(df.rows, P), "Amount")

RevenueMatched(df) ==
    LET P(r) == StrContainsAny(r.Category, cv_revenue_categories)
    IN  AmountWhere(df, P)
ExpenseMatched(df) ==
    LET P(r) == StrContainsAny(r.Category, cv_expense_categories)
    IN  AmountWhere(df, P)
PositiveAmounts(df) == LET P(r) == r.Amount > 0 IN AmountWhere(df, P)
NegativeAmounts(df) == LET P(r) == r.Amount < 0 IN AmountWhere(df, P)

CategoryBased(df) == Num(RevenueMatched(df) - Abs(ExpenseMatched(df)))
SignBased(df) == Num(PositiveAmounts(df) - Abs(NegativeAmounts(df)))

\* C14: with an Amount column, calculate_cash_visibility returns the
\* category formula (revenue-keyword amounts minus |expense-keyword amounts|)
\* exactly when the table has a Category column and the revenue-keyword sum
\* is positive, and the sign formula (positive amounts minus |negative
\* amounts|) otherwise
C14_CategoryFormulaIffRevenuePositive ==
    (KpiCalled("cash_visibility") /\ "Amount" \in kpi_call.transactions_df.cols)
    => LET df == kpi_call.transactions_df
       IN  kpi_call.result =
              IF "Category" \in df.cols /\ RevenueMatched(df) > 0
                  THEN CategoryBased(df)
                  ELSE SignBased(df)

C14_Witness ==
    /\ KpiCalled("cash_visibility")
    /\ {"Amount", "Category"} \subseteq kpi_call.transactions_df.cols
    /\ RevenueMatched(kpi_call.transactions_df) > 0
    /\ CategoryBased(kpi_call.transactions_df) # SignBased(kpi_call.transactions_df)
    /\ kpi_call.result = CategoryBased(kpi_call.transactions_df)


-----------------------------------------------------------------------------
(* The scenario of the three formulas *)

ScenarioTransactions ==
    <<[Date |-> 1, Category |-> "Revenue", Amount |-> 100],
      [Date |-> 1, Category |-> "Marketing", Amount |-> -40]>>
ScenarioCampaigns == <<CampaignRow(40, 2)>>

IsScenarioTransactions(df) ==
    /\ {"Amount", "Category"} \subseteq df.cols
    /\ Len(df.rows) = 2
    /\ \A i \in 1..2 :
          /\ df.rows[i].Category = ScenarioTransactions[i].Category
          /\ df.rows[i].Amount = ScenarioTransactions[i].Amount
IsScenarioCampaigns(df) ==
    {"Spend", "Acquisitions"} \subseteq df.cols /\ df.rows = ScenarioCampaigns

\* the revenue calculate_marketing_spend_roi matches by category
RoiRevenueMatched(df) ==
    LET P(r) == StrContainsAny(r.Category, roi_revenue_categories)
    IN  AmountWhere(df, P)

TotalSpend(df) == SumField(df.rows, "Spend")
TotalAcquisitions(df) == SumField(df.rows, "Acquisitions")

-----------------------------------------------------------------------------
(* calculate_days_cash_on_hand without a Current_Cash target *)

\* the targets table has no row whose Metric_Name is 'Current_Cash'
NoCurrentCashRow(targets_df) ==
    \/ "Metric_Name" \notin targets_df.cols
    \/ TargetRows(targets_df, "Current_Cash") = <<>>

\* the result computed from current_cash = calculate_cash_visibility(...)
DaysCashFromVisibility(transactions_df) ==
    LET current_cash == calculate_cash_visibility(transactions_df)
    IN  IF RLe(current_cash, Zero) THEN Zero
        ELSE days_cash_from(current_cash, transactions_df)

\* C16: when the targets table has no row with Metric_Name 'Current_Cash',
\* calculate_days_cash_on_hand takes current_cash to be
\* calculate_cash_visibility(transactions) and returns the result computed
\* from that value
C16_FallsBackToCashVisibility ==
    (KpiCalled("days_cash_on_hand") /\ NoCurrentCashRow(kpi_call.targets_df))
    => kpi_call.result = DaysCashFromVisibility(kpi_call.transactions_df)


-----------------------------------------------------------------------------
(* Properties of calculate_marketing_spend_roi *)

\* the category-matched revenue rows are available: the table has a Category
\* column and the amounts of the rows that match a revenue keyword sum to a
\* positive total
RevenueRowsAvailable(df) == "Category" \in df.cols /\ RoiRevenueMatched(df) > 0

\* C17: calculate_marketing_spend_roi returns
\* (total_revenue - total_spend) / total_spend * 100, where total_revenue is
\* the sum of the category-matched revenue rows when there are such rows and
\* the sum of the positive amounts otherwise, also when the table has a
\* Category column in which no row matches
C17_RoiRevenueFallsBackToPositiveAmounts ==
    LET tx   == kpi_call.transactions_df
        camp == kpi_call.campaign_df
        total_revenue ==
            IF RevenueRowsAvailable(tx) THEN RoiRevenueMatched(tx)
            ELSE PositiveAmounts(tx)
    IN  (KpiCalled("marketing_spend_roi") /\ "Amount" \in tx.cols
            /\ "Spend" \in camp.cols /\ TotalSpend(camp) > 0)
        => kpi_call.result
              = Round2(Rat((total_revenue - TotalSpend(camp)) * 100,
                           TotalSpend(camp)))


-----------------------------------------------------------------------------
(* Properties of calculate_cost_per_transaction *)

\* the sum over the rows of |Amount|
RECURSIVE AbsoluteVolume(_)
AbsoluteVolume(rows) ==
    IF rows = <<>> THEN 0 ELSE Abs(rows[1].Amount) + AbsoluteVolume(Tail(rows))

\* no row of the table falls in a fee/cost/charge category
NoCostCategoryRow(df) ==
    \/ "Category" \notin df.cols
    \/ \A i \in 1..Len(df.rows) :
          ~StrContainsAny(df.rows[i].Category, cost_categories)

\* the tier factor of the average transaction size
TierFactor(df) ==
    LET avg == RAbs(Rat(SumField(df.rows, "Amount"), Len(df.rows)))
    IN  IF RLt(Num(1000), avg) THEN Rat(7, 10)
        ELSE IF RLt(avg, Num(100)) THEN Rat(13, 10)
        ELSE Num(1)

\* C18: when no row falls in a fee/cost/charge category,
\* calculate_cost_per_transaction takes 0.5% of the sum over all rows of
\* |amount| as the total costs, divides by the transaction count and applies
\* the tier factor (the result is at least 0.01); tables that mix positive
\* and negative amounts are included
C18_CostsFromAbsoluteVolume ==
    LET df == kpi_call.transactions_df
    IN  (KpiCalled("cost_per_transaction") /\ "Amount" \in df.cols
            /\ Len(df.rows) > 0 /\ NoCostCategoryRow(df))
        => kpi_call.result
              = RMax(RMul(RDiv(RMul(Num(AbsoluteVolume(df.rows)), Rat(5, 1000)),
                               Num(Len(df.rows))),
                          TierFactor(df)),
                     Rat(1, 100))


-----------------------------------------------------------------------------
(* _calculate_growth_rate, one call at a time *)

SeriesValues == {Num(-10), Zero, Num(10), Num(20), NaN}

SeriesInputs == UNION { [1..n -> SeriesValues] : n \in 0..MaxSeries }

\* what a call of _calculate_growth_rate leaves alone
notGrowth == <<xlVars, kpiVars, relVars, anVars, clean_call, svcVars>>

CallGrowthRate ==
    /\ growth_call = NoGrowthCall
    /\ \E series \in SeriesInputs :
          growth_call' = [series |-> series,
                          result |-> _calculate_growth_rate(series)]
    /\ UNCHANGED notGrowth

InitGrowth == InitCleaner

NextGrowth == CallGrowthRate

SpecGrowth == InitGrowth /\ [][NextGrowth]_vars

GrowthCalled == growth_call # NoGrowthCall

\* the values of the series that are not NaN, and the means of its halves
CleanPoints(series) ==
    LET Clean(x) == ~IsNaN(x) IN SelectSeq(series, Clean)
FirstHalfMean(series) ==
    LET clean == CleanPoints(series)
    IN  MeanFloats(SubSeq(clean, 1, Len(clean) \div 2))
SecondHalfMean(series) ==
    LET clean == CleanPoints(series)
    IN  MeanFloats(SubSeq(clean, Len(clean) \div 2 + 1, Len(clean)))
IsConstant(series) ==
    \A i, j \in 1..Len(series) : series[i] = series[j]

-----------------------------------------------------------------------------
(* analyze_data_with_gemini when the classifier gives no usable answer *)

Analyzed == rel_pc \in {"analyzed", "done"}

\* the call failed, timed out, or came back without a 200 answer that
\* carries a choice
ClassifierCallFailed == classifier.kind # "status_200" \/ ~classifier.choices

\* the answer is text that is not JSON, or JSON that is not an object
AnswerIsNotJsonObject ==
    /\ classifier.kind = "status_200"
    /\ classifier.choices
    /\ (~classifier.content.json \/ ~IsDict(classifier.content.value))

\* C20: analyze_data_with_gemini never raises, and whenever the classifier
\* call fails, times out, returns a non-200 status or returns text that does
\* not parse as a JSON object, it returns exactly
\* create_intelligent_fallback_analysis of the same three tables
C20_FailedClassifierGivesRuleBasedAnalysis ==
    Analyzed =>
        /\ ~IsRaised(analysis)
        /\ (ClassifierCallFailed \/ AnswerIsNotJsonObject) => RuleBased

C20_Witness ==
    /\ rel_pc = "analyzed"
    /\ classifier.kind = "timeout"
    /\ RuleBased
    /\ Len(analysis.relevant_kpis) > 0


-----------------------------------------------------------------------------
(* One call of the language-model service, step by step                     *)
(*                                                                          *)
(* A text is a record with the field str; by names the function that wrote  *)
(* it, "service" for the content of an answer of the service.               *)

UpperChar(c) ==
    LET k == IndexIn(c, LowerLetters, 1)
    IN IF k = 0 THEN c ELSE SubSeq(UpperLetters, k, k)

\* str.upper()
RECURSIVE upper(_)
upper(s) ==
    IF Len(s) = 0 THEN ""
    ELSE UpperChar(SubSeq(s, 1, 1)) \o upper(SubSeq(s, 2, Len(s)))

IsString(v) == "str" \in DOMAIN v

\* the queries and the personas of the calls of the model
LlmQueries ==
    {"What is our Cash position?", "ROI of the spend", "Growth plan", "hello"}
LlmPersonas == {"CFO", "ceo", "Excel Assistant", "BOTH"}

\* query.lower() and persona.upper(), tabulated over them
query_lower_of == [query \in LlmQueries |-> lower(query)]
persona_upper_of == [persona \in LlmPersonas |-> upper(persona)]

\* the if/elif chain over the query: the first branch one of whose keywords
\* is in query_lower, the else branch if there is none
RECURSIVE Branch(_, _, _)
Branch(query_lower, branches, k) ==
    IF k > Len(branches) THEN "else"
    ELSE IF AnyKeywordIn(query_lower, branches[k]) THEN branches[k][1]
    ELSE Branch(query_lower, branches, k + 1)

fallback_branches ==
    [CFO  |-> << <<"cash", "flow">>, <<"budget", "spend">>,
                 <<"roi", "return">>, <<"risk">> >>,
     CEO  |-> << <<"growth", "scale">>, <<"strategy", "plan">>,
                 <<"competition", "market">>, <<"team", "people">> >>,
     BOTH |-> << <<"cac", "acquisition">>, <<"revenue", "sales">> >>]

generate_fallback_response(query, persona, context) ==
    LET query_lower == query_lower_of[query]
        persona_upper == persona_upper_of[persona]
        voice == IF persona_upper = "CFO" THEN "CFO"
                 ELSE IF persona_upper = "CEO" THEN "CEO" ELSE "BOTH"
    IN [str |-> TRUE, by |-> "generate_fallback_response", voice |-> voice,
        branch |-> Branch(query_lower, fallback_branches[voice], 1)]

enhanced_branches ==
    [CFO   |-> << <<"cash", "flow">>, <<"budget", "spend">>,
                  <<"forecast", "accuracy">> >>,
     CEO   |-> << <<"growth", "scale">>, <<"market", "position">>,
                  <<"strategy", "future">> >>,
     EXCEL |-> << <<"profit", "margin">>, <<"trend", "analysis">> >>,
     BOTH  |-> << >>]

\* a context: a dict, or a str that is or is not the JSON of a value
DictContext(d) == [kind |-> "dict", value |-> d]
StrContext(v) == [kind |-> "str", json |-> TRUE, value |-> v]
NotJsonContext == [kind |-> "str", json |-> FALSE]

\* the try block of generate_enhanced_fallback_response
enhanced_fallback_try(query, persona, context) ==
    LET data == IF context.kind = "str"
                    THEN IF context.json THEN context.value ELSE Raised
                    ELSE context.value
    IN  IF IsRaised(data) THEN Raised
        ELSE IF ~IsDict(data) THEN Raised        \* data.get: AttributeError
        ELSE
        LET processed_data == Get(data, "processed_financial_data", EmptyDict)
            dashboard_data == Get(data, "dashboard_data", EmptyDict)
            analysis_data == IF DOMAIN processed_data # {}
                                 THEN processed_data ELSE dashboard_data
            figures == Get(analysis_data, "current_metrics", EmptyDict)
            query_lower == query_lower_of[query]
            persona_upper == persona_upper_of[persona]
            voice == IF persona_upper = "CFO" THEN "CFO"
                     ELSE IF persona_upper = "CEO" THEN "CEO"
                     ELSE IF Contains(persona_upper, "EXCEL") THEN "EXCEL"
                     ELSE "BOTH"
        IN [str |-> TRUE, by |-> "generate_enhanced_fallback_response",
            voice |-> voice,
            branch |-> Branch(query_lower, enhanced_branches[voice], 1),
            figures |-> figures]

generate_enhanced_fallback_response(query, persona, context) ==
    OnException(enhanced_fallback_try(query, persona, context),
                generate_fallback_response(query, persona, context))

\* the fixed messages of _call_gemini_api
Unavailable(why) == [str |-> TRUE, by |-> "_call_gemini_api", why |-> why]

\* what the service, or the connection to it, answers to the one request
ServiceContents == {[str |-> TRUE, by |-> "service", json |-> j] : j \in BOOLEAN}

ServiceAnswerSet ==
    {[kind |-> k] : k \in {"timeout", "connection_error"}}
    \cup {[kind |-> k, body |-> "not_json"] : k \in {"status_200", "status_500"}}
    \cup {[kind |-> k, body |-> "json", choices |-> FALSE] :
            k \in {"status_200", "status_429", "status_500"}}
    \cup {[kind |-> k, body |-> "json", choices |-> TRUE, content |-> c] :
            k \in {"status_200", "status_429", "status_500"},
            c \in ServiceContents}

\* requests.post raised
PostRaised(answer) == answer.kind \in {"timeout", "connection_error"}

status_code(answer) == answer.kind

any_status_with_choices(answer) ==
    answer.body = "json" /\ answer.choices

\* response.status_code == 200 and the body has a first choice
HasChoice(answer) ==
    status_code(answer) = "status_200" /\ answer.body = "json" /\ answer.choices

\* get_gemini_response after requests.post
get_gemini_response_after_post(query, persona, context, answer) ==
    LET try ==
            IF PostRaised(answer) THEN Raised
            ELSE IF status_code(answer) = "status_429"
                THEN generate_enhanced_fallback_response(query, persona, context)
            ELSE IF status_code(answer) = "status_200" /\ answer.body # "json"
                THEN Raised                       \* response.json() raises
            ELSE IF HasChoice(answer) THEN answer.content
            ELSE generate_enhanced_fallback_response(query, persona, context)
    IN OnException(try,
                   generate_enhanced_fallback_response(query, persona, context))

\* _call_gemini_api after requests.post
call_gemini_api_after_post(answer) ==
    LET try ==
            IF PostRaised(answer) THEN Raised
            ELSE IF status_code(answer) = "status_200" /\ answer.body # "json"
                THEN Raised
            ELSE IF HasChoice(answer) THEN answer.content
            ELSE Unavailable("API error")
    IN OnException(try, Unavailable("connection error"))

LlmContexts ==
    {NotJsonContext, StrContext(JsonArray),
     DictContext(EmptyDict),
     DictContext([dashboard_data |->
                    [current_metrics |-> [revenue |-> [total_revenue |-> 100]]]])}

NoContext == [kind |-> "none"]

LlmCall(fn, query, persona, context, api_key) ==
    [fn |-> fn, query |-> query, persona |-> persona, context |-> context,
     api_key |-> api_key, pc |-> "entered", requests |-> 0,
     answer |-> Nothing, result |-> Nothing]

notService ==
    <<xlVars, kpiVars, relVars, anVars, callVars, dashboard, loaded, srvVars,
      authVars>>

EnterGetGeminiResponse ==
    /\ llm_call.pc = "idle"
    /\ \E query \in LlmQueries, persona \in LlmPersonas,
          context \in LlmContexts, api_key \in BOOLEAN :
          llm_call' = LlmCall("get_gemini_response", query, persona, context,
                              api_key)
    /\ UNCHANGED notService

EnterCallGeminiApi ==
    /\ llm_call.pc = "idle"
    /\ \E api_key \in BOOLEAN :
          llm_call' = LlmCall("_call_gemini_api", "", "", NoContext, api_key)
    /\ UNCHANGED notService

\* no key is configured: the function returns without a request
ReturnWithoutKey ==
    /\ llm_call.pc = "entered"
    /\ ~llm_call.api_key
    /\ llm_call' =
          [llm_call EXCEPT
             !.pc = "returned",
             !.result =
                IF llm_call.fn = "get_gemini_response"
                    THEN generate_enhanced_fallback_response(
                             llm_call.query, llm_call.persona, llm_call.context)
                    ELSE Unavailable("no API key")]
    /\ UNCHANGED notService

\* requests.post(..., timeout=30) is called
PostRequest ==
    /\ llm_call.pc = "entered"
    /\ llm_call.api_key
    /\ llm_call' = [llm_call EXCEPT !.pc = "pending", !.requests = @ + 1]
    /\ UNCHANGED notService

\* requests.post returns or raises, and the function runs to its return
ServiceAnswers ==
    /\ llm_call.pc = "pending"
    /\ \E answer \in ServiceAnswerSet :
          llm_call' =
             [llm_call EXCEPT
                !.pc = "returned",
                !.answer = answer,
                !.result =
                   IF llm_call.fn = "get_gemini_response"
                       THEN get_gemini_response_after_post(
                                llm_call.query, llm_call.persona,
                                llm_call.context, answer)
                       ELSE call_gemini_api_after_post(answer)]
    /\ UNCHANGED notService

InitService ==
    /\ llm_call = NoLlmCall
    /\ dashboard = Nothing
    /\ loaded = Nothing
    /\ IdleServer /\ IdleAuth
    /\ clean_call = NoCleanCall /\ growth_call = NoGrowthCall
    /\ IdleExcel /\ IdleKpi /\ IdleRelevance /\ IdleAnalyzer

NextService ==
    \/ EnterGetGeminiResponse
    \/ EnterCallGeminiApi
    \/ ReturnWithoutKey
    \/ PostRequest
    \/ ServiceAnswers

\* a call that was entered runs on, and the request ends within its timeout
SpecService ==
    /\ InitService /\ [][NextService]_vars
    /\ WF_vars(ReturnWithoutKey) /\ WF_vars(PostRequest) /\ WF_vars(ServiceAnswers)

-----------------------------------------------------------------------------
(* Properties of a call of the language-model service *)

LlmInProgress == llm_call.pc \in {"entered", "pending"}
LlmReturned == llm_call.pc = "returned"
LlmRequested == LlmReturned /\ llm_call.requests = 1

\* timeout, exception or a status other than 200
ServiceFailed ==
    /\ LlmRequested
    /\ llm_call.answer.kind # "status_200"

\* the result is what the fallback generator gives for the arguments
FromFallbackGenerator ==
    /\ llm_call.fn = "get_gemini_response"
    /\ llm_call.result =
          generate_enhanced_fallback_response(
              llm_call.query, llm_call.persona, llm_call.context)
    /\ llm_call.result.by \in {"generate_enhanced_fallback_response",
                                "generate_fallback_response"}

\* the result is one of the fixed messages of _call_gemini_api
FixedMessage ==
    /\ llm_call.fn = "_call_gemini_api"
    /\ llm_call.result \in {Unavailable("API error"),
                             Unavailable("connection error")}

OneRequestThenAString(local) ==
    /\ llm_call.pc # "idle" => llm_call.requests <= 1
    /\ LlmReturned => IsString(llm_call.result)
    /\ ServiceFailed => local

\* C21 (as stated): every call of get_gemini_response and of _call_gemini_api
\* issues at most one request and returns a string; after a timeout, an
\* exception or a status other than 200 the string returned is the one the
\* local fallback generator gives; and a call that was entered returns.
C21_FailureGivesGeneratorText ==
    /\ [](OneRequestThenAString(
              llm_call.result.by \in {"generate_enhanced_fallback_response",
                                      "generate_fallback_response"}))
    /\ (LlmInProgress ~> LlmReturned)

\* C21 (amended): every call of get_gemini_response and of _call_gemini_api
\* issues at most one request and returns a string, and a call that was
\* entered returns; after a timeout, an exception or a status other than 200
\* get_gemini_response returns what the local fallback generator gives for
\* the arguments of the call, and _call_gemini_api returns one of its fixed
\* messages, "API error" or "connection error".
C21_FailureGivesLocalText ==
    /\ [](OneRequestThenAString(FromFallbackGenerator \/ FixedMessage))
    /\ (LlmInProgress ~> LlmReturned)

\* get_gemini_response got a status 500 whose body has choices, with a
\* context that is not JSON: the text is the one of generate_fallback_response
C21_Witness ==
    /\ ServiceFailed
    /\ llm_call.fn = "get_gemini_response"
    /\ llm_call.answer.kind = "status_500"
    /\ llm_call.answer.body = "json" /\ llm_call.answer.choices
    /\ llm_call.result.by = "generate_fallback_response"

\* _call_gemini_api got a status 500 and returned its fixed message
C21_WitnessFixedMessage ==
    /\ ServiceFailed
    /\ llm_call.fn = "_call_gemini_api"
    /\ llm_call.answer.kind = "status_500"
    /\ llm_call.result = Unavailable("API error")


-----------------------------------------------------------------------------
(* get_dashboard_data: analyze_financial_data, then the dict for display *)

AlertSuccess(ai_insights_) ==
    [status |-> "SUCCESS",
     message |-> "Intelligent financial analysis completed",
     analysis |-> Get(ai_insights_, "executive_summary", "Analysis completed")]

AlertError ==
    [status |-> "ERROR",
     message |-> "Analysis error",
     analysis |-> "Unable to complete analysis"]

\* the try block of get_dashboard_data, on the dict the analyzer returned
dashboard_try(analysis_result) ==
    LET current_metrics_ == Get(analysis_result, "current_metrics", EmptyDict)
        predictions == Get(analysis_result, "predictions", EmptyDict)
        ai_insights_ == Get(analysis_result, "ai_insights", EmptyDict)
    IN  IF ~IsDict(ai_insights_) THEN Raised     \* ai_insights.get: AttributeError
        ELSE [current_metrics |-> current_metrics_,
              predictions |-> predictions,
              ai_insights |-> ai_insights_,
              patterns |-> Get(analysis_result, "patterns", EmptyDict),
              file_info |-> Get(analysis_result, "file_info", EmptyDict),
              sentinel_alert |-> AlertSuccess(ai_insights_)]

\* the dict of the except clause of get_dashboard_data
dashboard_except(file_info) ==
    [current_metrics |-> [error |-> "Analysis failed"],
     predictions |-> EmptyDict,
     ai_insights |-> [executive_summary |-> "Analysis unavailable"],
     patterns |-> EmptyDict,
     file_info |-> IF IsNull(file_info) THEN EmptyDict ELSE file_info,
     sentinel_alert |-> AlertError]

get_dashboard_data(analysis_result, file_info) ==
    OnException(dashboard_try(analysis_result), dashboard_except(file_info))

\* get_dashboard_data after analyze_financial_data_intelligent has returned
ReturnDashboardData ==
    /\ an_pc = "done"
    /\ dashboard = Nothing
    /\ dashboard' = get_dashboard_data(an_result, an_frames.file_info)
    /\ UNCHANGED <<xlVars, kpiVars, relVars, anVars, callVars, llm_call, loaded,
                   srvVars, authVars>>

NextDashboard == NextAnalyzer \/ ReturnDashboardData

SpecDashboard == InitAnalyzer /\ [][NextDashboard]_vars

-----------------------------------------------------------------------------
(* Properties of get_dashboard_data *)

DashboardReturned == dashboard # Nothing

\* a step of analyze_financial_data raised: its except clause returned
StepRaised == an_pc = "done" /\ an_result = _create_fallback_analysis

\* C22: when a step of analyze_financial_data raised, get_dashboard_data
\* returns a dict whose sentinel_alert.status is ERROR; and the status is
\* SUCCESS only when the dict carries the current_metrics that were computed.
C22_FailedAnalysisIsReportedAsError ==
    DashboardReturned =>
        /\ StepRaised => dashboard.sentinel_alert.status = "ERROR"
        /\ dashboard.sentinel_alert.status = "SUCCESS" =>
               dashboard.current_metrics = current_metrics

\* the predictions raised on a revenue of 0 and the dashboard says SUCCESS
C22_Reached ==
    /\ DashboardReturned
    /\ StepRaised
    /\ dashboard.sentinel_alert.status = "SUCCESS"
    /\ dashboard.current_metrics = EmptyDict

\* what analyze_financial_data returns on the tables when the service has no
\* key: the insights are the local ones
WithoutService(frames) ==
    LET metrics == _calculate_current_metrics(frames.transactions_df,
                                              frames.campaign_df)
        predictions == _create_prediction_scenarios(metrics)
    IN  IF IsRaised(predictions) THEN _create_fallback_analysis
        ELSE [current_metrics |-> metrics,
              patterns |-> _identify_patterns(frames.transactions_df,
                                              frames.campaign_df),
              ai_insights |-> _create_fallback_insights,
              predictions |-> predictions,
              file_info |-> IF IsNull(frames.file_info)
                                THEN EmptyDict ELSE frames.file_info]

\* C23: the current_metrics and the predictions of the dict get_dashboard_data
\* returns are those it returns for the same tables when the service is not
\* reached, whatever the service answered.
C23_NumbersIgnoreTheService ==
    DashboardReturned =>
        LET reference == get_dashboard_data(WithoutService(an_frames),
                                            an_frames.file_info)
        IN  /\ dashboard.current_metrics = reference.current_metrics
            /\ dashboard.predictions = reference.predictions

\* the service answered a JSON array: the metrics were computed, and the
\* dashboard carries the error dict in their place
C23_Reached ==
    /\ DashboardReturned
    /\ ai_insights = JsonArray
    /\ "current_metrics" \in DOMAIN an_result
    /\ dashboard.current_metrics = [error |-> "Analysis failed"]
    /\ dashboard.predictions = EmptyDict


-----------------------------------------------------------------------------
(* The endpoints of main.py and the stores uploaded_files and               *)
(* processed_financial_data.                                                *)
(*                                                                          *)
(* A file_id is [prefix, second, outputs]: f"file_{second}" and             *)
(* f"processed_{second}" followed by outputs times "_output".  A dict is    *)
(* the sequence of its items [key, value] in insertion order.  The          *)
(* temporary file a request creates is [request, made].                     *)

MaxSecond == 3        \* seconds of wall-clock time
MaxRequests == 4      \* requests served

FileId(prefix, second) == [prefix |-> prefix, second |-> second, outputs |-> 0]

\* f"{file_id}_output"
OutputOf(file_id) == [file_id EXCEPT !.outputs = @ + 1]

\* identifiers a client can send that no handler ever stored
mock_file_id == [prefix |-> "mock", second |-> 0, outputs |-> 0]
NeverStored == [prefix |-> "nosuch", second |-> 0, outputs |-> 0]

\* int(k.split('_')[1]) if '_' in k else 0, on the identifiers stored
SortKey(file_id) == file_id.second

Keys(dict) == {dict[i].key : i \in 1..Len(dict)}

Has(dict, key) == key \in Keys(dict)

Lookup(dict, key) ==
    dict[CHOOSE i \in 1..Len(dict) : dict[i].key = key].value

put_if_absent(dict, key, value) ==
    IF Has(dict, key) THEN dict
    ELSE Append(dict, [key |-> key, value |-> value])

\* dict[key] = value
Put(dict, key, value) ==
    IF Has(dict, key)
        THEN [i \in 1..Len(dict) |->
                IF dict[i].key = key THEN [key |-> key, value |-> value]
                ELSE dict[i]]
        ELSE Append(dict, [key |-> key, value |-> value])

\* max(dict.keys(), key=...): the first key, in insertion order, whose sort
\* key no other exceeds
MaxKey(dict) ==
    LET first == CHOOSE i \in 1..Len(dict) :
                    /\ \A j \in 1..Len(dict) :
                          SortKey(dict[j].key) <= SortKey(dict[i].key)
                    /\ \A j \in 1..(i - 1) :
                          SortKey(dict[j].key) < SortKey(dict[i].key)
    IN dict[first].key

TempFile(request, made) == [request |-> request, made |-> made]

\* the dict process_financial_workbook returns for the file of a request
WorkbookResult(request) ==
    [upload |-> request, current_metrics |-> [of_upload |-> request]]

\* raise HTTPException(status_code=..., detail=...)
HTTPException(code) == [raised |-> TRUE, status_code |-> code]

Ok(content) == [status_code |-> 200, content |-> content]

\* "except Exception as e: raise HTTPException(status_code=500, ...)" around
\* the body of a handler; HTTPException is an Exception
handled_as_500(outcome) ==
    IF IsRaised(outcome) THEN HTTPException(500) ELSE outcome

\* a handler that lets the HTTPException it raised reach the client
reraised(outcome) == outcome

ExceptException(outcome) == handled_as_500(outcome)

\* the response sent for the outcome of a handler; rejected is the status
\* the body of the handler raised itself, 0 if it raised none
Respond(endpoint, body_outcome, detail) ==
    LET outcome == ExceptException(body_outcome)
    IN [endpoint |-> endpoint,
        status_code |-> outcome.status_code,
        rejected |-> IF IsRaised(body_outcome) /\ "status_code" \in DOMAIN body_outcome
                         THEN body_outcome.status_code ELSE 0,
        detail |-> detail]

NoDetail == [none |-> TRUE]

notServer ==
    <<xlVars, kpiVars, relVars, anVars, callVars, llm_call, dashboard, loaded,
      authVars>>

\* a second of wall-clock time passes
Tick ==
    /\ wall_clock < MaxSecond
    /\ wall_clock' = wall_clock + 1
    /\ UNCHANGED <<uploaded_files, processed_financial_data, served,
                   analyzing, last_response, uploads>>
    /\ UNCHANGED notServer

\* POST /uploadfile/
UploadFile ==
    /\ served < MaxRequests
    /\ served' = served + 1
    /\ \E xlsx \in BOOLEAN, processed \in BOOLEAN :
        LET file_id == FileId("file", wall_clock)
            tmp_file_path == TempFile(served', "upload")
            result == WorkbookResult(served')
            body == IF ~xlsx THEN HTTPException(400)
                    ELSE IF ~processed THEN Raised
                    ELSE Ok(result)
        IN  /\ IF IsRaised(body)
                  THEN UNCHANGED <<uploaded_files, processed_financial_data,
                                   uploads>>
                  ELSE /\ uploaded_files' =
                              Put(uploaded_files, file_id, tmp_file_path)
                       /\ processed_financial_data' =
                              Put(processed_financial_data, file_id, result)
                       /\ uploads' =
                              Append(uploads, [file_id |-> file_id,
                                               file |-> tmp_file_path,
                                               result |-> result])
            /\ last_response' =
                  Respond("/uploadfile/", body, [file_id |-> file_id])
    /\ UNCHANGED <<wall_clock, analyzing>>
    /\ UNCHANGED notServer

\* POST /analyze-excel/ up to "await file.read()": the file_id is taken
AnalyzeExcelBegin ==
    /\ served < MaxRequests
    /\ ~analyzing.pending
    /\ served' = served + 1
    /\ analyzing' = [pending |-> TRUE,
                     file_id |-> FileId("file", wall_clock),
                     file |-> TempFile(served', "analyze")]
    /\ UNCHANGED <<uploaded_files, processed_financial_data, wall_clock,
                   last_response, uploads>>
    /\ UNCHANGED notServer

\* POST /analyze-excel/ from the write of the content to the response
AnalyzeExcelEnd ==
    /\ analyzing.pending
    /\ uploaded_files' = Put(uploaded_files, analyzing.file_id, analyzing.file)
    /\ \E analyzed \in BOOLEAN :
          last_response' =
             Respond("/analyze-excel/",
                     IF analyzed THEN Ok(NoDetail) ELSE Raised,
                     [file_id |-> analyzing.file_id])
    /\ analyzing' = NotAnalyzing
    /\ UNCHANGED <<processed_financial_data, wall_clock, served, uploads>>
    /\ UNCHANGED notServer

\* the identifiers a client sends: those stored and one never stored
ClientFileIds == Keys(uploaded_files) \cup {NeverStored}

\* POST /ai-excel-conversation/
AiExcelConversation ==
    /\ served < MaxRequests
    /\ served' = served + 1
    /\ \E file_id \in {k \in ClientFileIds : k.outputs = 0},
          status \in {"success", "continue_conversation", "raises"} :
        LET body == IF ~Has(uploaded_files, file_id) THEN HTTPException(404)
                    ELSE IF status = "raises" THEN Raised
                    ELSE Ok([status |-> status])
            stores == ~IsRaised(body) /\ status = "success"
        IN  /\ uploaded_files' =
                  IF stores
                      THEN Put(uploaded_files, OutputOf(file_id),
                               TempFile(served', "output"))
                      ELSE uploaded_files
            /\ last_response' = Respond("/ai-excel-conversation/", body,
                                        [file_id |-> file_id])
    /\ UNCHANGED <<processed_financial_data, wall_clock, analyzing, uploads>>
    /\ UNCHANGED notServer

\* POST /generate-processed-excel/
GenerateProcessedExcel ==
    /\ served < MaxRequests
    /\ served' = served + 1
    /\ \E exists \in BOOLEAN :
        LET latest_file_id == MaxKey(uploaded_files)
            filepath == Lookup(uploaded_files, latest_file_id)
            latest_financial_data ==
                IF Has(processed_financial_data, latest_file_id)
                    THEN Lookup(processed_financial_data, latest_file_id)
                    ELSE EmptyDict
            current_metrics_ ==
                Get(latest_financial_data, "current_metrics", EmptyDict)
            file_id == FileId("processed", wall_clock)
            body == IF uploaded_files = <<>> THEN HTTPException(404)
                    ELSE IF ~exists THEN HTTPException(404)
                    ELSE Ok(NoDetail)
        IN  /\ uploaded_files' =
                  IF IsRaised(body) THEN uploaded_files
                  ELSE Put(uploaded_files, file_id,
                           TempFile(served', "generated"))
            /\ last_response' =
                  Respond("/generate-processed-excel/", body,
                          IF IsRaised(body) THEN NoDetail
                          ELSE [file_id |-> file_id,
                                filepath |-> filepath,
                                ai_calculated_metrics |-> current_metrics_])
    /\ UNCHANGED <<processed_financial_data, wall_clock, analyzing, uploads>>
    /\ UNCHANGED notServer

\* GET /download-processed-excel/{file_id}
DownloadProcessedExcel ==
    /\ served < MaxRequests
    /\ served' = served + 1
    /\ \E file_id \in ClientFileIds \cup {mock_file_id}, exists \in BOOLEAN :
        LET body == IF file_id = mock_file_id THEN Ok(NoDetail)
                    ELSE IF ~Has(uploaded_files, file_id) THEN HTTPException(404)
                    ELSE IF ~exists THEN HTTPException(404)
                    ELSE Ok(NoDetail)
        IN last_response' =
              Respond("/download-processed-excel/", body, [file_id |-> file_id])
    /\ UNCHANGED <<uploaded_files, processed_financial_data, wall_clock,
                   analyzing, uploads>>
    /\ UNCHANGED notServer

InitServer ==
    /\ IdleServer /\ IdleAuth
    /\ llm_call = NoLlmCall /\ dashboard = Nothing /\ loaded = Nothing
    /\ clean_call = NoCleanCall /\ growth_call = NoGrowthCall
    /\ IdleExcel /\ IdleKpi /\ IdleRelevance /\ IdleAnalyzer

NextServer ==
    \/ Tick
    \/ UploadFile
    \/ AnalyzeExcelBegin
    \/ AnalyzeExcelEnd
    \/ AiExcelConversation
    \/ GenerateProcessedExcel
    \/ DownloadProcessedExcel

SpecServer == InitServer /\ [][NextServer]_vars


-----------------------------------------------------------------------------
(* Properties of the stores *)

\* the entries of a dict that a step leaves as they are
KeptEntries(before, after) ==
    {k \in Keys(before) : Has(after, k) /\ Lookup(after, k) = Lookup(before, k)}

\* a step writes at most one key of the dict and removes none
WritesOneKey(before, after) ==
    /\ Keys(before) \subseteq Keys(after)
    /\ Cardinality(Keys(after) \ KeptEntries(before, after)) <= 1

\* the step is an /uploadfile/ request that was stored
UploadStored == Len(uploads') = Len(uploads) + 1

StoreStep ==
    /\ WritesOneKey(uploaded_files, uploaded_files')
    /\ WritesOneKey(processed_financial_data, processed_financial_data')
    /\ UploadStored =>
          LET upload == uploads'[Len(uploads')]
          IN  /\ upload.file.request = served'
              /\ Lookup(uploaded_files', upload.file_id) = upload.file
              /\ Lookup(processed_financial_data', upload.file_id) = upload.result

\* C24: every step keeps every key of uploaded_files and of
\* processed_financial_data, changes the value of at most one key of each and
\* leaves the other entries as they are; after an /uploadfile/ request the
\* entry of its identifier in both stores is the one of that request, whether
\* the identifier was there before or not.
C24_StoresOnlyGrowLastWriteWins == [][StoreStep]_vars

\* two uploads in the same second: one entry, of the later upload
C24_Witness ==
    /\ Len(uploads) = 2
    /\ uploads[1].file_id = uploads[2].file_id
    /\ Keys(processed_financial_data) = {uploads[2].file_id}
    /\ Lookup(uploaded_files, uploads[2].file_id) = uploads[2].file
    /\ Lookup(processed_financial_data, uploads[2].file_id) = uploads[2].result

\* C25: for every file_id of processed_financial_data, the path stored in
\* uploaded_files under it is the file of the upload whose result
\* processed_financial_data holds under it.
C25_StoresAgree ==
    \A file_id \in Keys(processed_financial_data) :
        /\ Has(uploaded_files, file_id)
        /\ Lookup(uploaded_files, file_id).request =
              Lookup(processed_financial_data, file_id).upload

\* an /analyze-excel/ request of the same second replaced the path of an
\* upload whose result stays in processed_financial_data
C25_Reached ==
    \E file_id \in Keys(processed_financial_data) :
        /\ Has(uploaded_files, file_id)
        /\ Lookup(uploaded_files, file_id).made = "analyze"

ExcelGenerated ==
    /\ last_response.endpoint = "/generate-processed-excel/"
    /\ last_response.status_code = 200

\* C26: a /generate-processed-excel/ request that succeeds after an upload
\* reads the file of the latest /uploadfile/ request and reports the
\* current_metrics stored for that upload.
C26_GeneratesFromLatestUpload ==
    (ExcelGenerated /\ uploads # <<>>) =>
        LET latest == uploads[Len(uploads)]
        IN  /\ last_response.detail.filepath = latest.file
            /\ last_response.detail.ai_calculated_metrics =
                  latest.result.current_metrics

\* the request read a file that an earlier request had generated
C26_Reached ==
    /\ ExcelGenerated
    /\ uploads # <<>>
    /\ last_response.detail.filepath.made = "generated"
    /\ last_response.detail.ai_calculated_metrics = EmptyDict

\* C27: a request whose handler raised a client error (400 for a name that
\* does not end in .xlsx, 404 for a file_id that is not stored) is answered
\* with that status.
C27_ClientErrorsKeepTheirStatus ==
    (last_response # NoResponse /\ last_response.rejected # 0) =>
        last_response.status_code = last_response.rejected

\* an upload whose name does not end in .xlsx was answered 500
C27_Reached ==
    /\ last_response.endpoint = "/uploadfile/"
    /\ last_response.rejected = 400
    /\ last_response.status_code = 500


-----------------------------------------------------------------------------
(* load_data_from_excel: the processor, then the renaming and the file_info *)

\* the lower-case names load_data_from_excel renames, per role
loader_renames ==
    [transactions |-> [date |-> "Date", description |-> "Description",
                       category |-> "Category", amount |-> "Amount"],
     campaigns    |-> [timestamp |-> "Timestamp", campaign_id |-> "Campaign_ID",
                       channel |-> "Channel", spend |-> "Spend",
                       acquisitions |-> "Acquisitions"],
     targets      |-> [metric_name |-> "Metric_Name", value |-> "Value"]]

\* the chain of "if name in df.columns: df = df.rename(columns={name: ...})"
LoaderRename(role, table) ==
    [table EXCEPT !.columns =
        [n \in 1..Len(table.columns) |->
            IF table.columns[n].name \in DOMAIN loader_renames[role]
                THEN [table.columns[n] EXCEPT
                        !.name = loader_renames[role][table.columns[n].name]]
                ELSE table.columns[n]]]

\* the file_info the try block of load_data_from_excel builds
loader_file_info ==
    [processing_method |-> "intelligent_llm",
     sheets_found |-> <<"Transactions", "Campaign_Data", "Targets">>]

\* load_data_from_excel on what the processor returned; the processor
\* returns whatever happens, so the except clause has nothing to catch
load_data_from_excel(tables, file_info) ==
    [tables |-> [role \in Roles |-> LoaderRename(role, tables[role])],
     file_info |-> loader_file_info]

LoadDataFromExcel ==
    /\ xl_pc = "done"
    /\ loaded = Nothing
    /\ loaded' = load_data_from_excel(xl_tables, xl_file_info)
    /\ UNCHANGED <<xlVars, kpiVars, relVars, anVars, callVars, llm_call,
                   dashboard, srvVars, authVars>>

NextLoader == NextExcel \/ LoadDataFromExcel

SpecLoader == InitExcel /\ [][NextLoader]_vars

-----------------------------------------------------------------------------
(* Properties of load_data_from_excel *)

Loaded == loaded # Nothing

\* the processor gave up on the workbook and substituted the defaults
ProcessorFellBack == xl_file_info.processing_method = "fallback"

\* C28: when the workbook could not be read or normalized and the synthetic
\* defaults were substituted, the file_info load_data_from_excel returns has
\* processing_method 'fallback' and sheets_found ['Default']; and a
\* processing_method other than 'fallback' never comes with a default table.
C28_FallbackIsRecorded ==
    Loaded =>
        /\ ProcessorFellBack =>
              /\ loaded.file_info.processing_method = "fallback"
              /\ loaded.file_info.sheets_found = <<"Default">>
        /\ loaded.file_info.processing_method # "fallback" =>
              \A role \in Roles : loaded.tables[role].origin # "default"

\* an unreadable workbook: three default tables handed on as 'intelligent_llm'
C28_Reached ==
    /\ Loaded
    /\ ~workbook.readable
    /\ ProcessorFellBack
    /\ \A role \in Roles : loaded.tables[role].origin = "default"
    /\ loaded.file_info.processing_method = "intelligent_llm"


-----------------------------------------------------------------------------
(* Properties of the columns of a normalized table *)

\* how many columns of the table carry the name
Occurrences(table, name) ==
    Cardinality({i \in 1..Len(table.columns) : table.columns[i].name = name})

\* a sheet processor returned the table: from a sheet, or the default one
TableReturned(role) == xl_tables[role].origin \in {"sheet", "default"}

\* C30: whatever the column names of the sheet, the table a sheet processor
\* returns has each canonical column of its role exactly once, and no two of
\* its columns carry the same name.
C30_CanonicalColumnsExactlyOnce ==
    \A role \in Roles :
        TableReturned(role) =>
            /\ \A n \in 1..Len(required_cols[role]) :
                  Occurrences(xl_tables[role],
                              standard_names[role][required_cols[role][n]]) = 1
            /\ \A i, j \in 1..Len(xl_tables[role].columns) :
                  i # j => xl_tables[role].columns[i].name #
                           xl_tables[role].columns[j].name

\* a sheet with the columns 'date' and 'Date' came back with two columns 'Date'
C30_Reached ==
    /\ xl_tables["transactions"].origin = "sheet"
    /\ Occurrences(xl_tables["transactions"], "Date") = 2


-----------------------------------------------------------------------------
(* The sessions of auth_service.py: create_session, validate_session and    *)
(* logout_user on the collection db.sessions.  Time is in hours.  A token   *)
(* is the number of the create_session call that drew it: token_urlsafe(32) *)
(* does not repeat.  A call finds the database reachable or not.            *)

MaxTokens == 2        \* sessions created
MaxHour == 26         \* hours of time

\* timedelta(hours=24)
session_hours == 24

Emails == {"ann@example.com", "bob@example.com"}

\* sessions_collection.find_one({"token": session_token})
find_one(collection, session_token) ==
    IF \E s \in collection : s.token = session_token
        THEN CHOOSE s \in collection : s.token = session_token
        ELSE Null

\* sessions_collection.delete_one({"token": session_token})
delete_one(collection, session_token) ==
    {s \in collection : s.token # session_token}

never_expired(now, session) == FALSE

\* datetime.now() > session["expires_at"]
Expired(now, session) == now > session.expires_at

\* the tokens a client can present: those drawn so far, and 0 for a text
\* that create_session never draws
ClientTokens == (1..Len(issued)) \cup {0}

AuthCall(fn, token, result) ==
    [fn |-> fn, token |-> token, at |-> auth_now, result |-> result]

notAuth ==
    <<xlVars, kpiVars, relVars, anVars, callVars, llm_call, dashboard, loaded,
      srvVars>>

\* time passes
TimePasses ==
    /\ \E hours \in {12, 13} :
          /\ auth_now + hours <= MaxHour
          /\ auth_now' = auth_now + hours
    /\ UNCHANGED <<sessions_collection, issued, auth_log, auth_call>>
    /\ UNCHANGED notAuth

CreateSession ==
    /\ Len(issued) < MaxTokens
    /\ \E user_email \in Emails, db_up \in BOOLEAN :
        LET session_token == Len(issued) + 1
            expiration == auth_now + session_hours
        IN  IF db_up
               THEN /\ sessions_collection' =
                          sessions_collection \cup
                            {[token |-> session_token, email |-> user_email,
                              expires_at |-> expiration]}
                    /\ issued' = Append(issued, [email |-> user_email,
                                                 created_at |-> auth_now])
                    /\ auth_call' = AuthCall("create_session", session_token,
                                             [token |-> session_token])
               ELSE /\ UNCHANGED <<sessions_collection, issued>>
                    /\ auth_call' = AuthCall("create_session", 0, Raised)
    /\ UNCHANGED <<auth_now, auth_log>>
    /\ UNCHANGED notAuth

ValidateSession ==
    /\ \E session_token \in ClientTokens, db_up \in BOOLEAN :
        LET session == find_one(sessions_collection, session_token)
        IN  IF ~db_up
               THEN /\ auth_call' = AuthCall("validate_session", session_token, Null)
                    /\ UNCHANGED <<sessions_collection, auth_log>>
            ELSE IF IsNull(session)
               THEN /\ auth_call' = AuthCall("validate_session", session_token, Null)
                    /\ UNCHANGED <<sessions_collection, auth_log>>
            ELSE IF Expired(auth_now, session)
               THEN /\ sessions_collection' =
                          delete_one(sessions_collection, session_token)
                    /\ auth_log' = [auth_log EXCEPT
                                      !.found_expired = @ \cup {session_token}]
                    /\ auth_call' = AuthCall("validate_session", session_token, Null)
            ELSE /\ auth_call' = AuthCall("validate_session", session_token,
                                          [email |-> session.email])
                 /\ UNCHANGED <<sessions_collection, auth_log>>
    /\ UNCHANGED <<auth_now, issued>>
    /\ UNCHANGED notAuth

LogoutUser ==
    /\ \E session_token \in ClientTokens, db_up \in BOOLEAN :
        /\ sessions_collection' =
              IF db_up THEN delete_one(sessions_collection, session_token)
              ELSE sessions_collection
        /\ auth_log' =
              [auth_log EXCEPT
                 !.logout_called = @ \cup {session_token},
                 !.logged_out = IF db_up THEN @ \cup {session_token} ELSE @]
        /\ auth_call' = AuthCall("logout_user", session_token,
                                 [success |-> db_up])
    /\ UNCHANGED <<auth_now, issued>>
    /\ UNCHANGED notAuth

InitAuth ==
    /\ IdleAuth
    /\ IdleServer
    /\ llm_call = NoLlmCall /\ dashboard = Nothing /\ loaded = Nothing
    /\ clean_call = NoCleanCall /\ growth_call = NoGrowthCall
    /\ IdleExcel /\ IdleKpi /\ IdleRelevance /\ IdleAnalyzer

NextAuth ==
    \/ TimePasses
    \/ CreateSession
    \/ ValidateSession
    \/ LogoutUser

SpecAuth == InitAuth /\ [][NextAuth]_vars

-----------------------------------------------------------------------------
(* Properties of the sessions *)

\* validate_session returned an email
ValidatedEmail ==
    /\ auth_call.fn = "validate_session"
    /\ ~IsNull(auth_call.result)

\* the token was created for the email the call returned, at most 24 hours
\* before the call, and was not found expired since
IssuedAndFresh ==
    /\ auth_call.token \in 1..Len(issued)
    /\ issued[auth_call.token].email = auth_call.result.email
    /\ auth_call.at >= issued[auth_call.token].created_at
    /\ auth_call.at <= issued[auth_call.token].created_at + session_hours
    /\ auth_call.token \notin auth_log.found_expired

\* C29 (as stated): validate_session returns an email only for a token that
\* create_session drew for that email, not more than 24 hours ago, and for
\* which logout_user was not called and which was not found expired; after
\* either it returns None.
C29_ValidUntilLogoutCallOrExpiry ==
    ValidatedEmail =>
        /\ IssuedAndFresh
        /\ auth_call.token \notin auth_log.logout_called

\* C29 (amended): validate_session returns an email only for a token that
\* create_session drew for that email, not more than 24 hours ago, which no
\* logout_user call has removed and which was not found expired; after a
\* logout_user call that reported success, or once found expired, it returns
\* None.  A logout_user call that failed leaves the session valid.
C29_ValidUntilLogoutOrExpiry ==
    ValidatedEmail =>
        /\ IssuedAndFresh
        /\ auth_call.token \notin auth_log.logged_out

\* a token validated exactly 24 hours after its creation
C29_Witness ==
    /\ ValidatedEmail
    /\ auth_call.at = issued[auth_call.token].created_at + session_hours

\* validate_session returned None for a token that logout_user had removed
C29_WitnessAfterLogout ==
    /\ auth_call.fn = "validate_session"
    /\ IsNull(auth_call.result)
    /\ auth_call.token \in auth_log.logged_out
    /\ auth_call.token \in 1..Len(issued)
    /\ auth_call.at <= issued[auth_call.token].created_at + session_hours

=============================================================================
